---- MODULE Spec2Model ----
(***************************************************************************)
(* A model of the dorry-backend retrieval pipeline: the chunker, the       *)
(* vector index adapter (Qdrant), text and PDF ingestion, document and     *)
(* account deletion, event detection and the chat route.                   *)
(*                                                                         *)
(* Every handler is split at its awaits: one action per suspension point,  *)
(* so that the interleavings of the single-threaded cooperative runtime    *)
(* are the interleavings of the actions.                                   *)
(***************************************************************************)
EXTENDS Integers, Sequences, FiniteSets, TLC

(***************************************************************************)
(* Bounds of the model.                                                    *)
(***************************************************************************)
\* documents ever created (their ids are 1..MaxDocs, in creation order)
MaxDocs == 1
\* words per chunk.  The source default is 300 (embedding.service.ts:27);
\* chunkText is uniform in chunkSize, and the model scales the default down so
\* that a text of a few words spans several chunks.
DefaultChunkSize == 2

NULL == "null"

Users == {"u1", "u2"}
DocIds == 1..MaxDocs

(***************************************************************************)
(* Text.  A string is a sequence of glyphs; a glyph is a whitespace        *)
(* character or a run of non-whitespace characters of a known length       *)
(* ("W" is a 48-character word), so that strings around the 50-character   *)
(* threshold of event detection fit in a short sequence.                   *)
(***************************************************************************)
FailureMarker == "Processing failed:"
Whitespace == {" ", "\n"}
IsSpace(g) == g \in Whitespace

GlyphLen(g) ==
  CASE g = "W" -> 48
    [] g = FailureMarker -> 18
    [] OTHER -> 1

RECURSIVE StrLen(_)
StrLen(s) == IF s = <<>> THEN 0 ELSE GlyphLen(Head(s)) + StrLen(Tail(s))

RECURSIVE DropSpaces(_)
DropSpaces(s) ==
  IF s # <<>> /\ IsSpace(Head(s)) THEN DropSpaces(Tail(s)) ELSE s

\* text.replace(/\s+/g, " ")
RECURSIVE CollapseSpaces(_)
CollapseSpaces(s) ==
  IF s = <<>> THEN <<>>
  ELSE IF IsSpace(Head(s)) THEN <<" ">> \o CollapseSpaces(DropSpaces(Tail(s)))
  ELSE <<Head(s)>> \o CollapseSpaces(Tail(s))

RECURSIVE DropTrailingSpaces(_)
DropTrailingSpaces(s) ==
  IF s # <<>> /\ IsSpace(s[Len(s)])
  THEN DropTrailingSpaces(SubSeq(s, 1, Len(s) - 1)) ELSE s

\* String.prototype.trim
Trim(s) == DropTrailingSpaces(DropSpaces(s))

\* String.prototype.split(" "): the pieces between single spaces
RECURSIVE SplitOnSpace(_, _)
SplitOnSpace(s, cur) ==
  IF s = <<>> THEN <<cur>>
  ELSE IF Head(s) = " " THEN <<cur>> \o SplitOnSpace(Tail(s), <<>>)
  ELSE SplitOnSpace(Tail(s), Append(cur, Head(s)))

\* Array.prototype.join(sep)
RECURSIVE Join(_, _)
Join(ws, sep) ==
  IF ws = <<>> THEN <<>>
  ELSE IF Len(ws) = 1 THEN ws[1]
  ELSE ws[1] \o sep \o Join(Tail(ws), sep)

Min(a, b) == IF a < b THEN a ELSE b

\* chunkText(text, chunkSize)
chunkTextNotNormalized(text, chunkSize) ==
  IF text = <<>> THEN <<>>
  ELSE LET words == SplitOnSpace(text, <<>>)
           n == Len(words)
           count == (n + chunkSize - 1) \div chunkSize
       IN  [k \in 1..count |->
              Join(SubSeq(words, (k - 1) * chunkSize + 1,
                          Min(k * chunkSize, n)), <<" ">>)]
chunkTextWholeOnly(text, chunkSize) ==
  LET normalized == Trim(CollapseSpaces(text))
  IN  IF normalized = <<>> THEN <<>>
      ELSE LET words == SplitOnSpace(normalized, <<>>)
               n == Len(words)
               count == n \div chunkSize
           IN  [k \in 1..count |->
                  Join(SubSeq(words, (k - 1) * chunkSize + 1,
                              Min(k * chunkSize, n)), <<" ">>)]
chunkText(text, chunkSize) ==
  LET normalized == Trim(CollapseSpaces(text))
  IN  IF normalized = <<>> THEN <<>>
      ELSE LET words == SplitOnSpace(normalized, <<>>)
               n == Len(words)
               count == (n + chunkSize - 1) \div chunkSize
           IN  [k \in 1..count |->
                  Join(SubSeq(words, (k - 1) * chunkSize + 1,
                              Min(k * chunkSize, n)), <<" ">>)]

\* texts a client posts or a PDF yields
Texts ==
  { <<" ">>,
    <<"W", " ", " ", "a", " ", "a">> }
\* pdfParse can also yield no text, and a text that itself begins with
\* "Processing failed:"
PdfTexts == Texts \cup { <<>>, <<FailureMarker, " ", "a">> }

(***************************************************************************)
(* Error messages.                                                         *)
(***************************************************************************)
NoError == "none"
ErrPdfParse == "pdf-parse failed"
ErrNoText == "No text could be extracted from the PDF"
ErrNoChunks == "No chunks could be created from the extracted text"
ErrDatabase == "database error"
ErrEmbedding == "HF embedding request failed"
ErrQdrant == "qdrant error"

\* `Processing failed: ${error.message}`
FailureContentNoMessage(msg) == <<FailureMarker>>
FailureContent(msg) == <<FailureMarker, " ", msg>>

VARIABLES
  users,          \* User rows
  documents,      \* Document rows: id -> [userId, fileType, content]
  chunks,         \* Chunk rows
  detectedEvents, \* DetectedEvent rows
  points,         \* points of the collection user_text_embeddings
  pipe,           \* per document: the ingestion run (request or detached task)
  del,            \* per document: the DELETE /documents/:id request in flight
  acct,           \* per user: the DELETE /auth/me request in flight
  inv,            \* detectEventsForDocument invocations
  lastSearch,     \* what the latest call of the adapter returned, when it was a search
  chats,          \* Chat rows: id -> [userId, messages] (the title is never read)
  reqs,           \* POST /chat requests in flight
  probe,          \* a function applied on its own: its name, argument and result
  schema,         \* Qdrant: whether the collection exists, and its payload indexes
  boot            \* the server process: startServer and initQdrant

vars == <<users, documents, chunks, detectedEvents, points,
          pipe, del, acct, inv, lastSearch, chats, reqs, probe, schema, boot>>

\* the collection's schema and the server process
bootVars == <<schema, boot>>

\* the state of the relational and the vector store and of the handlers
\* working on documents
storeVars == <<users, documents, chunks, detectedEvents, points, pipe, del, acct, inv>>
\* the state of the chat route
chatVars == <<chats, reqs>>


(***************************************************************************)
(* Embedding gateway and vector index adapter.                             *)
(***************************************************************************)
RECURSIVE CountGlyph(_, _)
CountGlyph(s, g) ==
  IF s = <<>> THEN 0
  ELSE (IF Head(s) = g THEN 1 ELSE 0) + CountGlyph(Tail(s), g)

\* embedText(text): the external model is a deterministic function of the
\* text; the model keeps one feature of it
embedText(text) == CountGlyph(text, "a")

\* the similarity Qdrant scores a point with (higher is closer)
Score(queryVector, vector) ==
  IF queryVector < vector THEN 10 - (vector - queryVector)
  ELSE 10 - (queryVector - vector)

\* uuidv4(): an identity no point of the collection has.  Only its being
\* unused matters, so the model takes the first unused one of the chunk.
RECURSIVE FreshFrom(_, _, _)
FreshFrom(pts, chunkId, k) ==
  IF \E p \in pts : p.id = <<chunkId, k>> THEN FreshFrom(pts, chunkId, k + 1)
  ELSE <<chunkId, k>>
uuidv4(pts, chunkId) == FreshFrom(pts, chunkId, 0)

\* the point storeChunksInQdrant builds for one chunk [chunk_id, text]
BuildPointNoChunkId(pts, userId, documentId, ch) ==
  [id |-> uuidv4(pts, ch.chunk_id), vector |-> embedText(ch.text),
   user_id |-> userId, document_id |-> documentId,
   chunk_id |-> <<documentId, -1>>, text |-> ch.text]
BuildPoint(pts, userId, documentId, ch) ==
  [id |-> uuidv4(pts, ch.chunk_id),
   vector |-> embedText(ch.text),
   user_id |-> userId,
   document_id |-> documentId,
   chunk_id |-> ch.chunk_id,
   text |-> ch.text]

\* the loop of storeChunksInQdrant over chunks
RECURSIVE BuildPoints(_, _, _, _)
BuildPoints(pts, userId, documentId, chs) ==
  IF chs = <<>> THEN pts
  ELSE BuildPoints(pts \cup {BuildPoint(pts, userId, documentId, Head(chs))},
                   userId, documentId, Tail(chs))

\* storeChunksInQdrant: the collection after the acknowledged upsert
storeChunksInQdrant(pts, userId, documentId, chs) ==
  IF Len(chs) = 0 THEN pts
  ELSE BuildPoints(pts, userId, documentId, chs)

\* the filter of searchSimilarChunks
SearchFilterNone(pts, userId) == pts
SearchFilter(pts, userId) == { p \in pts : p.user_id = userId }

\* qdrant.search: any listing of up to limit points that pass the filter,
\* best score first (the order among equal scores is Qdrant's choice)
QdrantSearch(pts, queryVector, limit, userId) ==
  LET cand == SearchFilter(pts, userId)
      k == Min(limit, Cardinality(cand))
  IN  { s \in [1..k -> cand] :
          /\ \A i, j \in 1..k : i # j => s[i] # s[j]
          /\ \A i, j \in 1..k :
               i < j => Score(queryVector, s[i].vector) >= Score(queryVector, s[j].vector)
          /\ \A p \in cand :
               (\A i \in 1..k : s[i] # p) =>
                 \A i \in 1..k : Score(queryVector, s[i].vector) >= Score(queryVector, p.vector) }

\* the mapping searchSimilarChunks returns
SearchHit(queryVector, p) ==
  [chunk_id |-> p.chunk_id, document_id |-> p.document_id, text |-> p.text,
   score |-> Score(queryVector, p.vector)]

\* deleteUserChunks(userId)
deleteUserChunks(pts, userId) == { p \in pts : ~(p.user_id = userId) }

\* deleteDocumentChunks(userId, documentId)
deleteDocumentChunks(pts, userId, documentId) ==
  { p \in pts : ~(p.user_id = userId /\ p.document_id = documentId) }

(***************************************************************************)
(* Relational store (Prisma).                                              *)
(***************************************************************************)
DocExists(d) == d \in DOMAIN documents

\* the rows prisma.chunk.create makes for rawChunks of document d
ChunkRows(d, userId, rawChunks) ==
  [i \in 1..Len(rawChunks) |->
     [id |-> <<d, i - 1>>, documentId |-> d, userId |-> userId,
      content |-> rawChunks[i], chunkIndex |-> i - 1]]

Range(f) == { f[x] : x \in DOMAIN f }

\* chunks.map((c) => ({chunk_id: c.id, text: c.content}))
ChunkArgs(rows) ==
  [i \in 1..Len(rows) |-> [chunk_id |-> rows[i].id, text |-> rows[i].content]]

Restrict(f, S) == [x \in S |-> f[x]]

\* prisma.document.delete: the row and, by cascade, its chunks and events
CascadeDocs(ds) ==
  /\ documents' = Restrict(documents, DOMAIN documents \ ds)
  /\ chunks' = { c \in chunks : c.documentId \notin ds }
  /\ detectedEvents' = { e \in detectedEvents : e.documentId \notin ds }

(***************************************************************************)
(* Event detection: values of the model's JSON, candidates, sanitization.  *)
(***************************************************************************)
\* invocations of detectEventsForDocument per document
MaxCalls == 2
InvIds == DocIds \X (1..MaxCalls)

\* JSON values: a string (a glyph sequence), a number (confidences are in
\* hundredths: Num(60) is 0.6), null
Str(s) == [type |-> "string", val |-> s]
Num(n) == [type |-> "number", val |-> n]
Null == [type |-> "null", val |-> 0]
\* a parsed Date
Date(t) == [type |-> "date", val |-> t]

\* JavaScript truthiness of a JSON value
Truthy(v) ==
  CASE v.type = "string" -> v.val # <<>>
    [] v.type = "number" -> v.val # 0
    [] v.type = "date" -> TRUE
    [] OTHER -> FALSE

Max(a, b) == IF a > b THEN a ELSE b

\* e.confidence < 0.6, in hundredths
MinConfidence == 60
\* Math.min(1, ...), in hundredths
MaxConfidence == 100
\* combinedText.length < 50
MinEventTextLength == 50
\* combinedText.slice(0, 1000)
MaxSourceText == 1000

\* the filter of sanitizeEvents
SanitizeKeepsBelow(e) ==
  /\ Truthy(e.title) /\ e.title.type = "string"
  /\ e.confidence.type = "number"
  /\ ~(e.confidence.val < MinConfidence - 1)
SanitizeKeeps(e) ==
  /\ Truthy(e.title) /\ e.title.type = "string"
  /\ e.confidence.type = "number"
  /\ ~(e.confidence.val < MinConfidence)

\* the map of sanitizeEvents
SanitizeMapNoClamp(e) ==
  [title |-> Str(Trim(e.title.val)),
   start_time |-> e.start_time,
   end_time |-> e.end_time,
   recurrence |-> e.recurrence,
   confidence |-> e.confidence]
SanitizeMap(e) ==
  [title |-> Str(Trim(e.title.val)),
   start_time |-> e.start_time,
   end_time |-> e.end_time,
   recurrence |-> e.recurrence,
   confidence |-> Num(Min(MaxConfidence, Max(0, e.confidence.val)))]

sanitizeEvents(events) ==
  LET kept == SelectSeq(events, SanitizeKeeps)
  IN  [i \in 1..Len(kept) |-> SanitizeMap(kept[i])]

\* the strings new Date() parses
ValidDates == { <<"2026-01-05T10:00">> }

parseDateUnchecked(v) ==
  IF ~Truthy(v) \/ v.type # "string" THEN Null
  ELSE LET trimmed == Trim(v.val)
       IN  IF trimmed = <<>> THEN Null ELSE Date(trimmed)
parseDate(v) ==
  IF ~Truthy(v) \/ v.type # "string" THEN Null
  ELSE LET trimmed == Trim(v.val)
       IN  IF trimmed = <<>> THEN Null
           ELSE IF trimmed \in ValidDates THEN Date(trimmed)
           ELSE Null

\* String.prototype.slice(0, n); a glyph that n would cut is dropped whole
RECURSIVE TakeChars(_, _)
TakeChars(s, n) ==
  IF s = <<>> \/ GlyphLen(Head(s)) > n THEN <<>>
  ELSE <<Head(s)>> \o TakeChars(Tail(s), n - GlyphLen(Head(s)))

\* a reply of the generative model to the extraction prompt: the call throws,
\* or the text is not JSON, or it is a JSON array of candidates
LlmThrows == [kind |-> "throws", items |-> <<>>]
LlmGarbage == [kind |-> "garbage", items |-> <<>>]
LlmNotArray == [kind |-> "notArray", items |-> <<>>]
LlmArray(items) == [kind |-> "array", items |-> items]

\* extractEventsWithLLM: the parsed array, or [] on an API error, on a parse
\* failure and on a parsed value that is not an array
extractEventsWithLLM(reply) ==
  IF reply.kind = "array" THEN reply.items ELSE <<>>

GoodEvent ==
  [title |-> Str(<<"Standup">>), start_time |-> Str(<<"2026-01-05T10:00">>),
   end_time |-> Null, recurrence |-> Str(<<"weekly">>), confidence |-> Num(90)]
OtherEvent ==
  [title |-> Str(<<"Review">>), start_time |-> Null,
   end_time |-> Null, recurrence |-> Str(<<"monthly">>), confidence |-> Num(60)]

\* the replies the system specification draws from
Replies == { LlmThrows, LlmArray(<<GoodEvent>>) }

\* the replies the extraction harness draws from
EventReplies == { LlmThrows, LlmArray(<<GoodEvent, OtherEvent>>) }

\* an invocation's locals (rawResponse among them); what the generative
\* model replied to it, if it was called; and, for a call the harness
\* makes, whether an earlier call for the document had completed when it
\* was made, and whether such a call had created an event
IdleInv ==
  [pc |-> "idle", userId |-> NULL, combinedText |-> <<>>, raw |-> <<>>, queue |-> <<>>,
   created |-> 0, skippedCount |-> 0, result |-> "none", llm |-> "none",
   prior |-> FALSE, priorCreated |-> FALSE]

\* the status GET /documents/:documentId computes
DerivedStatusNoTrim(doc) ==
  IF doc.fileType = "pdf"
  THEN IF doc.content = <<>> THEN "processing"
       ELSE IF Head(doc.content) = FailureMarker THEN "failed"
       ELSE "ready"
  ELSE "ready"
DerivedStatus(doc) ==
  IF doc.fileType = "pdf"
  THEN IF doc.content = <<>> \/ Trim(doc.content) = <<>> THEN "processing"
       ELSE IF Head(doc.content) = FailureMarker THEN "failed"
       ELSE "ready"
  ELSE "ready"

\* a run's locals: the text, the created Chunk rows, the caught error, the
\* outcome of the last deleteFromCloudinary ("ok" or "threw") while the
\* function is still running, whether the marker update resolved; and the
\* number of deleteFromCloudinary calls the run has made; the response the
\* upload request has sent; and whether an error has left the detached task
\* uncaught
IdlePipe ==
  [pc |-> "none", userId |-> NULL, text |-> <<>>, rows |-> <<>>, err |-> NoError,
   cleanup |-> "none", deleteCalls |-> 0, marked |-> FALSE, response |-> "none",
   unhandled |-> FALSE]

\* no search was made yet
NoSearch == [userId |-> NULL, limit |-> 0, hits |-> <<>>, result |-> <<>>]

\* chat requests; the Chat row a request creates has the request's identity
MaxReqs == 2
ReqIds == 1..MaxReqs
IdleReq == [pc |-> "idle"]
\* the chatId of a body that has none
NoChatId == 0

\* nothing is applied on its own
NoProbe == [fn |-> "none", arg |-> <<>>, out |-> "none"]

\* the payload fields initQdrant indexes, in the order of its calls
IndexFields == <<"user_id", "document_id", "chunk_id">>
\* the collection with its three indexes
FullSchema == [collection |-> TRUE, indexes |-> {"user_id", "document_id", "chunk_id"}]
\* the server process: where startServer is, the number of the start, how
\* the initQdrant of the start before ended, whether this one raised, the
\* indexes it has requested, and whether the server listens
Listening ==
  [pc |-> "listening", run |-> 1, prev |-> "none", raised |-> FALSE,
   requested |-> {"user_id", "document_id", "chunk_id"}, listening |-> TRUE]
\* the server has started on a complete collection
Serving == schema = FullSchema /\ boot = Listening

\* the stores are empty and no handler runs
QuietStores ==
  /\ users = Users
  /\ documents = <<>>
  /\ chunks = {}
  /\ detectedEvents = {}
  /\ points = {}
  /\ pipe = [d \in DocIds |-> IdlePipe]
  /\ del = [d \in DocIds |-> [pc |-> "idle", userId |-> NULL]]
  /\ acct = [u \in Users |-> "idle"]
  /\ inv = [i \in InvIds |-> IdleInv]
  /\ lastSearch = NoSearch
  /\ chats = <<>>
  /\ reqs = [r \in ReqIds |-> IdleReq]

\* the server serves, the stores are empty and no handler runs
Quiet ==
  /\ Serving
  /\ QuietStores

Init == Quiet /\ probe = NoProbe

\* the id of the next Document row
FreeDocs == { d \in DocIds : pipe[d].pc = "none" }
NextDocId == CHOOSE d \in FreeDocs : \A e \in FreeDocs : d <= e


(***************************************************************************)
(* POST /ingest: synchronous text ingestion.                               *)
(***************************************************************************)
\* prisma.document.create, then chunkText (synchronous)
IngestCreate(u, text) ==
  /\ FreeDocs # {}
  /\ u \in users
  /\ text # <<>>
  /\ LET d == NextDocId
     IN  /\ documents' = (d :> [userId |-> u, fileType |-> "text", content |-> text]) @@ documents
         /\ pipe' = [pipe EXCEPT ![d] =
              [IdlePipe EXCEPT !.pc = "t_created", !.userId = u, !.text = text]]
  /\ UNCHANGED <<bootVars, probe, lastSearch, chatVars, users, chunks, detectedEvents, points, del, acct, inv>>

\* prisma.document.create rejects: the catch block answers "Failed to ingest
\* text" and no row was made (the request keeps the place of the document
\* it did not create)
IngestCreateFails(u, text) ==
  /\ FreeDocs # {}
  /\ u \in users
  /\ text # <<>>
  /\ pipe' = [pipe EXCEPT ![NextDocId] =
       [IdlePipe EXCEPT !.pc = "t_error", !.userId = u, !.text = text, !.err = ErrDatabase]]
  /\ UNCHANGED <<bootVars, probe, lastSearch, chatVars, users, documents, chunks, detectedEvents, points, del, acct, inv>>

\* Promise.all(rawChunks.map(prisma.chunk.create)): every row is created, or
\* the first rejection ends the await with any of the other rows created
CreateChunks(d, okPc, failPc) ==
  LET rows == ChunkRows(d, pipe[d].userId, chunkText(pipe[d].text, DefaultChunkSize))
  IN  \/ /\ rows = <<>> \/ DocExists(d)
         /\ chunks' = chunks \cup Range(rows)
         /\ pipe' = [pipe EXCEPT ![d].pc = okPc, ![d].rows = rows]
      \/ /\ rows # <<>>
         /\ \E kept \in SUBSET Range(rows) :
              /\ kept # Range(rows)
              /\ ~DocExists(d) => kept = {}
              /\ chunks' = chunks \cup kept
         /\ pipe' = [pipe EXCEPT ![d].pc = failPc, ![d].err = ErrDatabase]

\* the collection after embedText threw for chunk k of the batch: the loop
\* ended before the one upsert that follows it
PointsUpsertedEach(pts, userId, documentId, chs, k) ==
  BuildPoints(pts, userId, documentId, SubSeq(chs, 1, k - 1))
PointsOnEmbeddingFailure(pts, userId, documentId, chs, k) == pts

\* the upsert that is not awaited: the caller goes on before a point is in
\* the collection
storeChunksUnawaited(pts, userId, documentId, chs) == pts
\* the awaited call of storeChunksInQdrant by a pipeline
storeChunksAwaited(pts, userId, documentId, chs) ==
  storeChunksInQdrant(pts, userId, documentId, chs)

\* storeChunksInQdrant: embed every chunk, then one acknowledged upsert; an
\* embedding can throw for any chunk, and the upsert can
StoreChunks(d, okPc, failPc) ==
  LET chs == ChunkArgs(pipe[d].rows)
  IN  \/ /\ points' = storeChunksAwaited(points, pipe[d].userId, d, chs)
         /\ pipe' = [pipe EXCEPT ![d].pc = okPc]
      \/ /\ \E k \in 1..Len(chs) :
              points' = PointsOnEmbeddingFailure(points, pipe[d].userId, d, chs, k)
         /\ pipe' = [pipe EXCEPT ![d].pc = failPc, ![d].err = ErrEmbedding]
      \/ /\ Len(chs) > 0
         /\ pipe' = [pipe EXCEPT ![d].pc = failPc, ![d].err = ErrQdrant]
         /\ UNCHANGED points

IngestChunks(d) ==
  /\ pipe[d].pc = "t_created"
  /\ CreateChunks(d, "t_chunked", "t_error")
  /\ UNCHANGED <<bootVars, probe, lastSearch, chatVars, users, documents, detectedEvents, points, del, acct, inv>>

IngestStore(d) ==
  /\ pipe[d].pc = "t_chunked"
  /\ StoreChunks(d, "t_done", "t_error")
  /\ UNCHANGED <<bootVars, probe, lastSearch, chatVars, users, documents, chunks, detectedEvents, del, acct, inv>>

(***************************************************************************)
(* POST /ingest/pdf and processPDFInBackground.                            *)
(***************************************************************************)
\* processPDFAsync(params): setImmediate schedules the run and returns, and
\* the handler sends its response
processPDFAwaited(p) == [p EXCEPT !.pc = "scheduled"]
processPDFAsync(p) == [p EXCEPT !.pc = "scheduled", !.response = "success"]

\* uploadToCloudinary, prisma.document.create with empty content,
\* processPDFAsync (setImmediate), response.  (An upload that fails before
\* the Document is created answers an error and leaves nothing.)
UploadPdf(u) ==
  /\ FreeDocs # {}
  /\ u \in users
  /\ LET d == NextDocId
     IN  /\ documents' = (d :> [userId |-> u, fileType |-> "pdf", content |-> <<>>]) @@ documents
         /\ pipe' = [pipe EXCEPT ![d] = processPDFAsync([IdlePipe EXCEPT !.userId = u])]
  /\ UNCHANGED <<bootVars, probe, lastSearch, chatVars, users, chunks, detectedEvents, points, del, acct, inv>>

\* throw: the run continues in the catch block
FailAndRetry(d, msg) == [pipe EXCEPT ![d].pc = "scheduled"]
Fail(d, msg) == [pipe EXCEPT ![d].pc = "failing", ![d].err = msg]

\* pdfParse(pdfBuffer) and the empty-text check
PdfExtractUnchecked(d) ==
  /\ pipe[d].pc = "scheduled"
  /\ \E t \in PdfTexts : pipe' = [pipe EXCEPT ![d].pc = "extracted", ![d].text = t]
  /\ UNCHANGED <<bootVars, probe, lastSearch, chatVars, users, documents, chunks, detectedEvents, points, del, acct, inv>>
PdfExtract(d) ==
  /\ pipe[d].pc = "scheduled"
  /\ \/ pipe' = Fail(d, ErrPdfParse)
     \/ \E t \in PdfTexts :
          IF Trim(t) = <<>>
          THEN pipe' = Fail(d, ErrNoText)
          ELSE pipe' = [pipe EXCEPT ![d].pc = "extracted", ![d].text = t]
  /\ UNCHANGED <<bootVars, probe, lastSearch, chatVars, users, documents, chunks, detectedEvents, points, del, acct, inv>>

\* the content the pipeline persists for the extracted text
PersistedTwice(text) == text \o text
PersistedContent(text) == text

\* prisma.document.update({content: extractedText}), then chunkText and
\* the zero-chunks check (synchronous)
PdfPersistText(d) ==
  /\ pipe[d].pc = "extracted"
  /\ \/ /\ DocExists(d)
        /\ documents' = [documents EXCEPT ![d].content = PersistedContent(pipe[d].text)]
        /\ IF Len(chunkText(pipe[d].text, DefaultChunkSize)) = 0
           THEN pipe' = Fail(d, ErrNoChunks)
           ELSE pipe' = [pipe EXCEPT ![d].pc = "chunking"]
     \/ /\ pipe' = Fail(d, ErrDatabase)
        /\ UNCHANGED documents
  /\ UNCHANGED <<bootVars, probe, lastSearch, chatVars, users, chunks, detectedEvents, points, del, acct, inv>>

PdfCreateChunks(d) ==
  /\ pipe[d].pc = "chunking"
  /\ CreateChunks(d, "chunked", "failing")
  /\ UNCHANGED <<bootVars, probe, lastSearch, chatVars, users, documents, detectedEvents, points, del, acct, inv>>

PdfStore(d) ==
  /\ pipe[d].pc = "chunked"
  /\ StoreChunks(d, "stored", "failing")
  /\ UNCHANGED <<bootVars, probe, lastSearch, chatVars, users, documents, chunks, detectedEvents, del, acct, inv>>

\* deleteFromCloudinary(publicId): cloudinary.uploader.destroy resolves or throws
deleteFromCloudinary(p) ==
  { [p EXCEPT !.deleteCalls = @ + 1, !.cleanup = "ok"],
    [p EXCEPT !.deleteCalls = @ + 1, !.cleanup = "threw"] }

\* the try/catch around the success path's deleteFromCloudinary: an error
\* is logged and the run goes on
AfterCleanupRethrow(p) ==
  IF p.cleanup = "threw" THEN [p EXCEPT !.pc = "failing", !.err = "Cloudinary delete failed"]
  ELSE [p EXCEPT !.pc = "detecting"]
AfterCleanup(p) == [p EXCEPT !.pc = "detecting"]

\* the success path's blob cleanup (its failure is logged only), then the
\* call of detectEventsForDocument
PdfCleanup(d) ==
  /\ pipe[d].pc = "stored"
  /\ \E p \in deleteFromCloudinary(pipe[d]) :
       pipe' = [pipe EXCEPT ![d] = AfterCleanup(p)]
  /\ inv' = [inv EXCEPT ![<<d, 1>>] = [IdleInv EXCEPT !.pc = "load"]]
  /\ UNCHANGED <<bootVars, probe, lastSearch, chatVars, users, documents, chunks, detectedEvents, points, del, acct>>

\* the function returns, its locals are gone
Completed(p) == [p EXCEPT !.pc = "done", !.cleanup = "none"]

\* an error of detectEventsForDocument is logged (the inner try/catch, or
\* the .catch on the detached promise)
OnDetectionErrorRethrow(p) == [p EXCEPT !.pc = "failing", !.err = "Document not found"]
OnDetectionError(p) == Completed(p)

\* "PDF processing completed": at once when detection is detached
\* (detectEventsForDocument(...).catch), after it settled when it is awaited
PdfComplete(d) ==
  /\ pipe[d].pc = "detecting"
  /\ pipe' = [pipe EXCEPT ![d] =
       IF inv[<<d, 1>>].result = "threw" THEN OnDetectionError(@) ELSE Completed(@)]
  /\ UNCHANGED <<bootVars, probe, lastSearch, chatVars, users, documents, chunks, detectedEvents, points, del, acct, inv>>

\* the try/catch around the catch block's deleteFromCloudinary: an error is
\* logged and the handler goes on to the failure marker
AfterFailCleanupRethrow(p) ==
  IF p.cleanup = "threw" THEN [p EXCEPT !.pc = "failed", !.cleanup = "none"]
  ELSE [p EXCEPT !.pc = "failMark"]
AfterFailCleanup(p) == [p EXCEPT !.pc = "failMark"]

\* catch (error): the cleanup of the blob
PdfFailCleanup(d) ==
  /\ pipe[d].pc = "failing"
  /\ \E p \in deleteFromCloudinary(pipe[d]) :
       pipe' = [pipe EXCEPT ![d] = AfterFailCleanup(p)]
  /\ UNCHANGED <<bootVars, probe, lastSearch, chatVars, users, documents, chunks, detectedEvents, points, del, acct, inv>>

\* the catch of processPDFAsync around processPDFInBackground: the re-raised
\* error is logged, and the task ends
UncaughtByAsync(p) == [p EXCEPT !.pc = "failed", !.cleanup = "none", !.unhandled = TRUE]
CaughtByAsync(p) == [p EXCEPT !.pc = "failed", !.cleanup = "none"]

\* catch (error): the failure marker (its failure is logged only), then
\* throw error, which processPDFAsync logs
PdfFailMark(d) ==
  /\ pipe[d].pc = "failMark"
  /\ \/ /\ DocExists(d)
        /\ documents' = [documents EXCEPT ![d].content = FailureContent(pipe[d].err)]
        /\ pipe' = [pipe EXCEPT ![d] = CaughtByAsync([@ EXCEPT !.marked = TRUE])]
     \/ /\ pipe' = [pipe EXCEPT ![d] = CaughtByAsync(@)]
        /\ UNCHANGED documents
  /\ UNCHANGED <<bootVars, probe, lastSearch, chatVars, users, chunks, detectedEvents, points, del, acct, inv>>

(***************************************************************************)
(* DELETE /documents/:documentId                                           *)
(***************************************************************************)
\* prisma.document.findFirst({id, userId}): the row of the requesting tenant
DelFindAnyTenant(u, d) ==
  /\ del[d].pc \in {"idle", "denied"}
  /\ DocExists(d)
  /\ del' = [del EXCEPT ![d] = [pc |-> "found", userId |-> u]]
  /\ UNCHANGED <<bootVars, probe, lastSearch, chatVars, users, documents, chunks, detectedEvents, points, pipe, acct, inv>>
DelFind(u, d) ==
  /\ del[d].pc \in {"idle", "denied"}
  /\ DocExists(d)
  /\ documents[d].userId = u
  /\ del' = [del EXCEPT ![d] = [pc |-> "found", userId |-> u]]
  /\ UNCHANGED <<bootVars, probe, lastSearch, chatVars, users, documents, chunks, detectedEvents, points, pipe, acct, inv>>

\* the lookup finds no row of the requesting tenant with that id: the
\* response is "Document not found or access denied" (404)
DelDenied(u, d) ==
  /\ del[d].pc \in {"idle", "denied"}
  /\ u \in users
  /\ ~(DocExists(d) /\ documents[d].userId = u)
  /\ del[d] # [pc |-> "denied", userId |-> u]
  /\ del' = [del EXCEPT ![d] = [pc |-> "denied", userId |-> u]]
  /\ UNCHANGED <<bootVars, probe, lastSearch, chatVars, users, documents, chunks, detectedEvents, points, pipe, acct, inv>>

\* deleteDocumentChunks(userId, documentId); an error is logged and the
\* deletion continues
DelVectors(d) ==
  /\ del[d].pc = "found"
  /\ \/ points' = deleteDocumentChunks(points, del[d].userId, d)
     \/ UNCHANGED points
  /\ del' = [del EXCEPT ![d].pc = "vectorsDone"]
  /\ UNCHANGED <<bootVars, probe, lastSearch, chatVars, users, documents, chunks, detectedEvents, pipe, acct, inv>>

\* prisma.document.delete({id}): success, or an error response when the
\* row is gone
DelRow(d) ==
  /\ del[d].pc = "vectorsDone"
  /\ IF DocExists(d)
     THEN CascadeDocs({d})
     ELSE UNCHANGED <<documents, chunks, detectedEvents>>
  /\ del' = [del EXCEPT ![d] = [pc |-> "idle", userId |-> NULL]]
  /\ UNCHANGED <<bootVars, probe, lastSearch, chatVars, users, points, pipe, acct, inv>>

(***************************************************************************)
(* DELETE /auth/me: deleteUserAccount                                      *)
(***************************************************************************)
\* prisma.user.findUnique, then deleteUserChunks(userId); an error of the
\* vector store is logged and the deletion continues.  (The lookup reads
\* only the User row, which nothing but this request changes, so it is
\* taken together with the call that follows it.)
AcctVectors(u) ==
  /\ acct[u] = "idle"
  /\ u \in users
  /\ \/ points' = deleteUserChunks(points, u)
     \/ UNCHANGED points
  /\ acct' = [acct EXCEPT ![u] = "vectorsDone"]
  /\ UNCHANGED <<bootVars, probe, lastSearch, chatVars, users, documents, chunks, detectedEvents, pipe, del, inv>>

\* prisma.user.delete: the row and, by cascade, the user's documents,
\* chunks and events
AcctRow(u) ==
  /\ acct[u] = "vectorsDone"
  /\ users' = users \ {u}
  /\ CascadeDocs({ d \in DOMAIN documents : documents[d].userId = u })
  /\ acct' = [acct EXCEPT ![u] = "idle"]
  /\ UNCHANGED <<bootVars, probe, lastSearch, chatVars, points, pipe, del, inv>>

(***************************************************************************)
(* detectEventsForDocument                                                 *)
(***************************************************************************)
\* a caller invokes the exported function for document d
DetectCall(d, k) ==
  /\ inv[<<d, k>>].pc = "idle"
  /\ pipe[d].pc # "none"
  /\ inv' = [inv EXCEPT ![<<d, k>>] =
       [IdleInv EXCEPT
          !.pc = "load",
          !.prior = \E j \in 1..MaxCalls : inv[<<d, j>>].pc = "done",
          !.priorCreated = \E j \in 1..MaxCalls :
                             inv[<<d, j>>].pc = "done" /\ inv[<<d, j>>].created > 0]]
  /\ UNCHANGED <<bootVars, probe, lastSearch, chatVars, users, documents, chunks, detectedEvents, points, pipe, del, acct>>

\* the Chunk rows of document d, orderBy chunkIndex asc
ChunksOf(d) == { c \in chunks : c.documentId = d }
SortedChunks(d) ==
  LET rows == ChunksOf(d)
  IN  CHOOSE s \in [1..Cardinality(rows) -> rows] :
        \A i, j \in 1..Cardinality(rows) : i < j => s[i].chunkIndex < s[j].chunkIndex

CombinedText(d) ==
  LET rows == SortedChunks(d)
  IN  Join([i \in 1..Len(rows) |-> rows[i].content], <<"\n">>)

\* the invocation returns (or throws) with its counts: its other locals
\* are gone
Return(r, result) ==
  [IdleInv EXCEPT !.pc = "done", !.result = result, !.created = r.created,
                  !.skippedCount = r.skippedCount, !.llm = r.llm]

\* prisma.document.findUnique({include: chunks})
DetectLoad(i) ==
  /\ inv[i].pc = "load"
  /\ IF DocExists(i[1])
     THEN inv' = [inv EXCEPT ![i].pc = "guard",
                             ![i].userId = documents[i[1]].userId,
                             ![i].combinedText = CombinedText(i[1])]
     ELSE inv' = [inv EXCEPT ![i] = Return(@, "threw")]
  /\ UNCHANGED <<bootVars, probe, lastSearch, chatVars, users, documents, chunks, detectedEvents, points, pipe, del, acct>>

\* prisma.detectedEvent.findFirst({where: {documentId}}) finds a row
ExistingEventIgnored(d) == FALSE
ExistingEvent(d) == \E e \in detectedEvents : e.documentId = d

\* combinedText.length < 50
TooShortInclusive(text) == StrLen(text) <= MinEventTextLength
TooShort(text) == StrLen(text) < MinEventTextLength

\* the skip on an existing event and the skip on a short text
DetectGuard(i) ==
  /\ inv[i].pc = "guard"
  /\ IF ExistingEvent(i[1])
     THEN inv' = [inv EXCEPT ![i] = Return(@, "skipped")]
     ELSE IF TooShort(inv[i].combinedText)
     THEN inv' = [inv EXCEPT ![i] = Return(@, "skipped")]
     ELSE inv' = [inv EXCEPT ![i].pc = "llm"]
  /\ UNCHANGED <<bootVars, probe, lastSearch, chatVars, users, documents, chunks, detectedEvents, points, pipe, del, acct>>

\* extractEventsWithLLM raises to its caller: it does not, its try/catch
\* blocks return []
LlmFailureRaised(reply) == reply.kind = "throws"
LlmRaises(reply) == FALSE

\* extractEventsWithLLM and sanitizeEvents
DetectExtract(i, replies) ==
  /\ inv[i].pc = "llm"
  /\ \E reply \in replies :
       LET rawResponse == extractEventsWithLLM(reply)
           valid == sanitizeEvents(rawResponse)
       IN  IF LlmRaises(reply)
           THEN inv' = [inv EXCEPT ![i] = Return([@ EXCEPT !.llm = reply.kind], "threw")]
           ELSE IF valid = <<>>
           THEN inv' = [inv EXCEPT ![i] = Return([@ EXCEPT !.llm = reply.kind], "detected")]
           ELSE inv' = [inv EXCEPT ![i].pc = "create", ![i].llm = reply.kind,
                                   ![i].raw = rawResponse, ![i].queue = valid]
  /\ UNCHANGED <<bootVars, probe, lastSearch, chatVars, users, documents, chunks, detectedEvents, points, pipe, del, acct>>

\* the DetectedEvent row the loop creates for a sanitized event
EventRow(i, e) ==
  [id |-> <<i, inv[i].created + inv[i].skippedCount>>,
   userId |-> inv[i].userId,
   documentId |-> i[1],
   title |-> e.title.val,
   startTime |-> parseDate(e.start_time),
   endTime |-> parseDate(e.end_time),
   recurrence |-> IF Truthy(e.recurrence) THEN e.recurrence ELSE Null,
   confidence |-> e.confidence.val,
   sourceText |-> TakeChars(inv[i].combinedText, MaxSourceText),
   run |-> i]

\* one turn of the loop over validEvents: the event is skipped when it has
\* no time and no recurrence; else prisma.detectedEvent.create, whose error
\* is logged
DetectCreate(i) ==
  /\ inv[i].pc = "create"
  /\ LET e == Head(inv[i].queue)
         rest == Tail(inv[i].queue)
         after(r) == IF rest = <<>> THEN Return(r, "detected")
                     ELSE [r EXCEPT !.queue = rest]
     IN  IF ~Truthy(parseDate(e.start_time)) /\ ~Truthy(parseDate(e.end_time))
            /\ ~Truthy(e.recurrence)
         THEN /\ inv' = [inv EXCEPT ![i] = after([@ EXCEPT !.skippedCount = @ + 1])]
              /\ UNCHANGED detectedEvents
         ELSE \/ /\ DocExists(i[1])
                 /\ detectedEvents' = detectedEvents \cup {EventRow(i, e)}
                 /\ inv' = [inv EXCEPT ![i] = after([@ EXCEPT !.created = @ + 1])]
              \/ /\ inv' = [inv EXCEPT ![i] = after([@ EXCEPT !.skippedCount = @])]
                 /\ UNCHANGED detectedEvents
  /\ UNCHANGED <<bootVars, probe, lastSearch, chatVars, users, documents, chunks, points, pipe, del, acct>>

\* The PDF pipeline with the detection it triggers, under document
\* deletion.  (What an account deletion does to a run, deleting the
\* Document row with its chunks and events and the user's points, a document
\* deletion does too; SpecSystem adds account deletion and text ingestion.)
Next ==
  \/ \E u \in Users : UploadPdf(u)
  \/ \E d \in DocIds : PdfExtract(d)
  \/ \E d \in DocIds : PdfPersistText(d)
  \/ \E d \in DocIds : PdfCreateChunks(d)
  \/ \E d \in DocIds : PdfStore(d)
  \/ \E d \in DocIds : PdfCleanup(d)
  \/ \E d \in DocIds : PdfComplete(d)
  \/ \E d \in DocIds : PdfFailCleanup(d)
  \/ \E d \in DocIds : PdfFailMark(d)
  \/ \E u \in Users, d \in DocIds : DelFind(u, d)
  \/ \E d \in DocIds : DelVectors(d)
  \/ \E d \in DocIds : DelRow(d)
  \/ \E i \in InvIds : DetectLoad(i)
  \/ \E i \in InvIds : DetectGuard(i)
  \/ \E i \in InvIds : DetectExtract(i, Replies)
  \/ \E i \in InvIds : DetectCreate(i)

Spec == Init /\ [][Next]_vars

\* the whole system
NextSystem ==
  \/ \E u \in Users, t \in Texts : IngestCreate(u, t)
  \/ \E d \in DocIds : IngestChunks(d)
  \/ \E d \in DocIds : IngestStore(d)
  \/ \E u \in Users : AcctVectors(u)
  \/ \E u \in Users : AcctRow(u)
  \/ Next

SpecSystem == Init /\ [][NextSystem]_vars

\* Text ingestion by any tenant under document deletion and account
\* deletion, with the requests that are refused.
NextIngest ==
  \/ \E u \in Users, t \in Texts : IngestCreate(u, t)
  \/ \E u \in Users, t \in Texts : IngestCreateFails(u, t)
  \/ \E d \in DocIds : IngestChunks(d)
  \/ \E d \in DocIds : IngestStore(d)
  \/ \E u \in Users, d \in DocIds : DelFind(u, d)
  \/ \E u \in Users, d \in DocIds : DelDenied(u, d)
  \/ \E d \in DocIds : DelVectors(d)
  \/ \E d \in DocIds : DelRow(d)
  \/ \E u \in Users : AcctVectors(u)
  \/ \E u \in Users : AcctRow(u)

SpecIngest == Init /\ [][NextIngest]_vars

\* the tenant who uploads PDFs and who deletes the account
Leaver == "u1"

\* The two stores under both ingestion paths and both deletions: texts of
\* any tenant, PDFs of one, who also deletes the account.  Detection, which
\* writes to neither the Chunk rows nor the collection, is triggered and
\* not run.
NextStores ==
  \/ \E u \in Users, t \in Texts : IngestCreate(u, t)
  \/ \E d \in DocIds : IngestChunks(d)
  \/ \E d \in DocIds : IngestStore(d)
  \/ UploadPdf(Leaver)
  \/ \E d \in DocIds : PdfExtract(d)
  \/ \E d \in DocIds : PdfPersistText(d)
  \/ \E d \in DocIds : PdfCreateChunks(d)
  \/ \E d \in DocIds : PdfStore(d)
  \/ \E d \in DocIds : PdfCleanup(d)
  \/ \E d \in DocIds : PdfComplete(d)
  \/ \E d \in DocIds : PdfFailCleanup(d)
  \/ \E d \in DocIds : PdfFailMark(d)
  \/ \E u \in Users, d \in DocIds : DelFind(u, d)
  \/ \E d \in DocIds : DelVectors(d)
  \/ \E d \in DocIds : DelRow(d)
  \/ AcctVectors(Leaver)
  \/ AcctRow(Leaver)

SpecStores == Init /\ [][NextStores]_vars

(***************************************************************************)
(* startServer and initQdrant.                                             *)
(***************************************************************************)
\* starts of the server process
MaxRuns == 2

\* the states of Qdrant a server can start on: no collection, or the
\* collection with any of the indexes
Schemas ==
  { [collection |-> FALSE, indexes |-> {}] }
    \cup { [collection |-> TRUE, indexes |-> ix] : ix \in SUBSET Range(IndexFields) }

\* the process is not running
Off == [pc |-> "off", run |-> 0, prev |-> "none", raised |-> FALSE,
        requested |-> {}, listening |-> FALSE]

InitBoot ==
  /\ QuietStores /\ probe = NoProbe
  /\ schema \in Schemas
  /\ boot = Off

\* startServer: after initQdrant has returned or raised (the error is
\* logged), app.listen
FinishFatal(b, raised) ==
  [b EXCEPT !.pc = "listening", !.raised = raised, !.listening = ~raised]
Finish(b, raised) ==
  [b EXCEPT !.pc = "listening", !.raised = raised, !.listening = TRUE]

\* the process is started, or started again: startServer calls initQdrant
StartServer ==
  /\ boot.pc \in {"off", "listening"}
  /\ boot.run < MaxRuns
  /\ boot' = [pc |-> "getCollection", run |-> boot.run + 1,
              prev |-> IF boot.pc = "off" THEN "none"
                       ELSE IF boot.raised THEN "raised" ELSE "returned",
              raised |-> FALSE, requested |-> {}, listening |-> FALSE]
  /\ UNCHANGED <<schema, probe, lastSearch, chatVars, storeVars>>

\* qdrant.getCollection: it resolves, or rejects with 404 for a collection
\* that does not exist, or rejects with another error, which initQdrant
\* raises
GetCollection ==
  /\ boot.pc = "getCollection"
  /\ \/ /\ schema.collection
        /\ boot' = [boot EXCEPT !.pc = "index"]
     \/ /\ ~schema.collection
        /\ boot' = [boot EXCEPT !.pc = "createCollection"]
     \/ boot' = Finish(boot, TRUE)
  /\ UNCHANGED <<schema, probe, lastSearch, chatVars, storeVars>>

\* qdrant.createCollection: its error is raised
CreateCollection ==
  /\ boot.pc = "createCollection"
  /\ \/ /\ ~schema.collection
        /\ schema' = [schema EXCEPT !.collection = TRUE]
        /\ boot' = [boot EXCEPT !.pc = "index"]
     \/ /\ boot' = Finish(boot, TRUE)
        /\ UNCHANGED schema
  /\ UNCHANGED <<probe, lastSearch, chatVars, storeVars>>

\* createPayloadIndexIfNeeded raises the error of createPayloadIndex: it
\* does not, every path of its catch block returns
IndexErrorRaisedAlways(field) == TRUE
IndexErrorRaised(field) == FALSE

\* createPayloadIndexIfNeeded for the next field: the index is created (in
\* the first or in the second schema format), or it exists already, or the
\* request fails
CreateIndex ==
  /\ boot.pc = "index"
  /\ LET field == IndexFields[Cardinality(boot.requested) + 1]
         asked == [boot EXCEPT !.requested = @ \cup {field}]
         next == IF asked.requested = Range(IndexFields) THEN Finish(asked, FALSE) ELSE asked
     IN  \/ /\ schema.collection
            /\ schema' = [schema EXCEPT !.indexes = @ \cup {field}]
            /\ boot' = next
         \/ /\ UNCHANGED schema
            /\ boot' = IF IndexErrorRaised(field) THEN Finish(asked, TRUE) ELSE next
  /\ UNCHANGED <<probe, lastSearch, chatVars, storeVars>>

NextBoot ==
  \/ StartServer
  \/ GetCollection
  \/ CreateCollection
  \/ CreateIndex

SpecBoot == InitBoot /\ [][NextBoot]_vars

\* initQdrant returns or raises with this step
InitEnds == boot.pc \notin {"off", "listening"} /\ boot'.pc = "listening"

\* C30: when initQdrant ends the server listens, whether it returned or
\* raised; when it returns the collection exists and the three payload
\* indexes have been requested; it raises only an error of getCollection
\* (other than 404) or of createCollection, never one of an index
\* creation; the collection and its indexes are never removed; and a start
\* on the collection with its three indexes changes nothing.
C30_InitNonFatal ==
  [][/\ InitEnds =>
          /\ boot'.listening
          /\ ~boot'.raised =>
               schema'.collection /\ boot'.requested = Range(IndexFields)
     /\ (boot'.raised /\ ~boot.raised) =>
          boot.pc \in {"getCollection", "createCollection"}
     /\ (schema.collection => schema'.collection)
     /\ schema.indexes \subseteq schema'.indexes
     /\ schema = FullSchema => schema' = schema]_vars

\* the second start, after a first whose initQdrant returned, has requested
\* the three indexes of the complete collection and listens
C30_Witness ==
  /\ boot.pc = "listening" /\ boot.run = 2 /\ boot.prev = "returned"
  /\ ~boot.raised /\ boot.listening
  /\ boot.requested = Range(IndexFields)
  /\ schema = FullSchema

\* C30 as stated: a second run, after a run that returned, changes nothing.
C30_SecondRunChangesNothing ==
  [][(boot.run >= 2 /\ boot.prev = "returned") => schema' = schema]_vars

(***************************************************************************)
(* Functions applied on their own to every argument up to a size.          *)
(***************************************************************************)
\* texts have at most MaxLen glyphs
MaxLen == 3

\* the sequences over S of at most n elements
SeqsUpTo(S, n) == UNION { [1..k -> S] : k \in 0..n }

\* the Document rows whose status is computed
StatusDocs ==
  [fileType : {"pdf", "text"}, content : SeqsUpTo({FailureMarker, " ", "a"}, MaxLen)]

InitStatus ==
  /\ Quiet
  /\ probe \in { [fn |-> "status", arg |-> doc, out |-> "none"] : doc \in StatusDocs }

\* GET /documents/:documentId computes the status of the row it found
ComputeStatus ==
  /\ probe.fn = "status" /\ probe.out = "none"
  /\ probe' = [probe EXCEPT !.out = DerivedStatus(probe.arg)]
  /\ UNCHANGED <<bootVars, lastSearch, chatVars, storeVars>>

NextStatus == ComputeStatus

SpecStatus == InitStatus /\ [][NextStatus]_vars

\* the texts chunkText is applied to have at most MaxTextLen glyphs, and
\* the chunk sizes are 1..MaxChunkSize
MaxTextLen == 6
MaxChunkSize == 3
ChunkArguments ==
  [text : SeqsUpTo({"a", "b", " ", "\n"}, MaxTextLen), chunkSize : 1..MaxChunkSize]

InitChunk ==
  /\ Quiet
  /\ probe \in { [fn |-> "call chunkText", arg |-> a, out |-> <<>>] : a \in ChunkArguments }

\* a caller applies chunkText
ComputeChunks ==
  /\ probe.fn = "call chunkText"
  /\ probe' = [probe EXCEPT !.fn = "chunkText",
                            !.out = chunkText(probe.arg.text, probe.arg.chunkSize)]
  /\ UNCHANGED <<bootVars, lastSearch, chatVars, storeVars>>

NextChunk == ComputeChunks

SpecChunk == InitChunk /\ [][NextChunk]_vars

\* every glyph of the content is whitespace (the empty content included)
Blank(content) == \A i \in 1..Len(content) : content[i] \in Whitespace

RECURSIVE WordsOf(_, _)
WordsOf(s, cur) ==
  IF s = <<>> THEN (IF cur = <<>> THEN <<>> ELSE <<cur>>)
  ELSE IF Head(s) \in {" ", "\n"}
  THEN (IF cur = <<>> THEN <<>> ELSE <<cur>>) \o WordsOf(Tail(s), <<>>)
  ELSE WordsOf(Tail(s), Append(cur, Head(s)))

\* the words of the chunks, one chunk after the other
RECURSIVE WordsOfChunks(_)
WordsOfChunks(cs) ==
  IF cs = <<>> THEN <<>> ELSE WordsOf(Head(cs), <<>>) \o WordsOfChunks(Tail(cs))

\* the words separated by single spaces
RECURSIVE Spaced(_)
Spaced(ws) ==
  IF ws = <<>> THEN <<>>
  ELSE IF Len(ws) = 1 THEN Head(ws)
  ELSE Head(ws) \o <<" ">> \o Spaced(Tail(ws))

\* C28: the chunks of chunkText(text, chunkSize) joined by single spaces
\* are the words of the text separated by single spaces, and the words of
\* the chunks, chunk after chunk, are the words of the text: each word
\* whole, once, in order.
C28_RoundTrip ==
  probe.fn = "chunkText" =>
    /\ Spaced(probe.out) = Spaced(WordsOf(probe.arg.text, <<>>))
    /\ WordsOfChunks(probe.out) = WordsOf(probe.arg.text, <<>>)
    /\ \A k \in 1..Len(probe.out) :
         \A j \in 1..Len(probe.out[k]) : probe.out[k][j] # "\n"

\* a text of two words (the second of two glyphs) with a line feed and
\* with doubled and leading whitespace was cut in two chunks
C28_Witness ==
  /\ probe.fn = "chunkText"
  /\ probe.arg = [text |-> <<" ", "a", "\n", " ", "b", "a">>, chunkSize |-> 1]
  /\ probe.out = << <<"a">>, <<"b", "a">> >>

\* C29: for a text of W words chunkText returns ceil(W / chunkSize) chunks;
\* every chunk but the last has chunkSize words and the last has between 1
\* and chunkSize; a text without a word has no chunk.
C29_PartitionShape ==
  probe.fn = "chunkText" =>
    LET W == Len(WordsOf(probe.arg.text, <<>>))
        size == probe.arg.chunkSize
        n == Len(probe.out)
    IN  /\ n * size >= W /\ (n - 1) * size < W
        /\ W = 0 => probe.out = <<>>
        /\ \A k \in 1..(n - 1) : Len(WordsOf(probe.out[k], <<>>)) = size
        /\ n > 0 => /\ Len(WordsOf(probe.out[n], <<>>)) >= 1
                    /\ Len(WordsOf(probe.out[n], <<>>)) <= size

\* a text of three words was cut in a chunk of two words and one of one
C29_Witness ==
  /\ probe.fn = "chunkText"
  /\ probe.arg.chunkSize = 2
  /\ Len(WordsOf(probe.arg.text, <<>>)) = 3
  /\ Len(probe.out) = 2
  /\ Len(WordsOf(probe.out[1], <<>>)) = 2 /\ Len(WordsOf(probe.out[2], <<>>)) = 1

(***************************************************************************)
(* The vector index adapter under arbitrary calls by any tenant.           *)
(***************************************************************************)
\* the collection holds at most MaxPoints points
MaxPoints == 3
\* searchSimilarChunks is called with a limit of 1..MaxLimit
MaxLimit == 2

\* the texts stored and searched for
IndexTexts == { <<"a">>, <<"b", " ", "a", " ", "a">> }
\* the document the stored chunks belong to
IndexDocs == {1}

\* the chunk arguments callers build for a text of document d of tenant u
ArgsFor(u, d, t) == ChunkArgs(ChunkRows(d, u, chunkText(t, DefaultChunkSize)))

\* searchSimilarChunks(userId, query, limit): embed the query, search with
\* the tenant filter, map the hits.  The set of the outcomes it can return,
\* each with the points Qdrant answered with.
searchSimilarChunks(pts, userId, query, limit) ==
  LET queryVector == embedText(query)
  IN  { [userId |-> userId, limit |-> limit, hits |-> hits,
         result |-> [i \in 1..Len(hits) |-> SearchHit(queryVector, hits[i])]] :
        hits \in QdrantSearch(pts, queryVector, limit, userId) }

CallStore(u, d, t) ==
  /\ Cardinality(points) + Len(ArgsFor(u, d, t)) <= MaxPoints
  /\ Len(ArgsFor(u, d, t)) > 0
  /\ points' = storeChunksInQdrant(points, u, d, ArgsFor(u, d, t))
  /\ lastSearch' = NoSearch
  /\ UNCHANGED <<bootVars, probe, chatVars, users, documents, chunks, detectedEvents, pipe, del, acct, inv>>

CallDeleteUser(u) ==
  /\ points' = deleteUserChunks(points, u)
  /\ lastSearch' = NoSearch
  /\ UNCHANGED <<bootVars, probe, chatVars, users, documents, chunks, detectedEvents, pipe, del, acct, inv>>

CallDeleteDocument(u, d) ==
  /\ points' = deleteDocumentChunks(points, u, d)
  /\ lastSearch' = NoSearch
  /\ UNCHANGED <<bootVars, probe, chatVars, users, documents, chunks, detectedEvents, pipe, del, acct, inv>>

CallSearch(u, q, limit) ==
  /\ \E found \in searchSimilarChunks(points, u, q, limit) : lastSearch' = found
  /\ UNCHANGED <<bootVars, probe, chatVars, storeVars>>

NextIndex ==
  \/ \E u \in Users, d \in IndexDocs, t \in IndexTexts : CallStore(u, d, t)
  \/ \E u \in Users : CallDeleteUser(u)
  \/ \E u \in Users, d \in IndexDocs : CallDeleteDocument(u, d)
  \/ \E u \in Users, q \in IndexTexts, limit \in 1..MaxLimit : CallSearch(u, q, limit)

SpecIndex == Init /\ [][NextIndex]_vars

\* C1: the points a search of tenant A returns all carry user_id = A; they
\* are points of the collection, at most limit of them, and the result is
\* their mapping.
C1_TenantIsolation ==
  lastSearch.userId # NULL =>
    /\ \A i \in 1..Len(lastSearch.hits) : lastSearch.hits[i].user_id = lastSearch.userId
    /\ Len(lastSearch.hits) <= lastSearch.limit
    /\ Len(lastSearch.result) = Len(lastSearch.hits)
    /\ \A i \in 1..Len(lastSearch.hits) :
         /\ lastSearch.result[i].chunk_id = lastSearch.hits[i].chunk_id
         /\ lastSearch.result[i].text = lastSearch.hits[i].text

\* a search of one tenant returned a point while the collection holds
\* points of the other tenant, and fewer points than the limit allows
C1_Witness ==
  /\ lastSearch.userId # NULL
  /\ Len(lastSearch.hits) = 1
  /\ lastSearch.limit = 2
  /\ \A i \in 1..Len(lastSearch.hits) : lastSearch.hits[i] \in points
  /\ \E p \in points : p.user_id # lastSearch.userId

(***************************************************************************)
(* detectEventsForDocument under calls that are repeated and that overlap. *)
(***************************************************************************)
\* the document the harness calls the extractor for
EventDocs == {1}

NextEvents ==
  \/ \E u \in Users, t \in Texts : FreeDocs \cap EventDocs # {} /\ IngestCreate(u, t)
  \/ \E d \in DocIds : IngestChunks(d)
  \/ \E d \in DocIds : IngestStore(d)
  \/ \E d \in EventDocs, k \in 1..MaxCalls : DetectCall(d, k)
  \/ \E i \in InvIds : DetectLoad(i)
  \/ \E i \in InvIds : DetectGuard(i)
  \/ \E i \in InvIds : DetectExtract(i, EventReplies)
  \/ \E i \in InvIds : DetectCreate(i)
  \/ \E u \in Users, d \in DocIds : DelFind(u, d)
  \/ \E d \in DocIds : DelVectors(d)
  \/ \E d \in DocIds : DelRow(d)

SpecEvents == Init /\ [][NextEvents]_vars

\* invocation i returns or throws with this step
Returns(i) == inv[i].pc \notin {"idle", "done"} /\ inv'[i].pc = "done"

\* C6: a call of detectEventsForDocument made after a completed call that
\* persisted an event persists nothing, and it returns {skipped: true}
\* when the document still exists.
C6_SkipAfterPersisted ==
  [][\A i \in InvIds :
       (Returns(i) /\ inv[i].priorCreated) =>
         /\ inv'[i].created = 0
         /\ \A e \in detectedEvents' : e.run # i
         /\ DocExists(i[1]) => inv'[i].result = "skipped"]_vars

\* a call made after a call that had persisted events has returned
\* {skipped: true}, and the events of the first call are there
C6_Witness ==
  \E i \in InvIds :
    /\ inv[i].pc = "done" /\ inv[i].result = "skipped"
    /\ \E j \in InvIds :
         /\ j # i /\ j[1] = i[1]
         /\ inv[j].pc = "done" /\ inv[j].created = 2
         /\ \E e \in detectedEvents : e.run = j
    /\ \A e \in detectedEvents : e.run # i

\* C6 as stated: a call made after a completed call returns
\* {skipped: true} and persists nothing, whatever the first call returned.
C6_SkipAfterAnyCall ==
  [][\A i \in InvIds :
       (Returns(i) /\ inv[i].prior) =>
         /\ inv'[i].result = "skipped"
         /\ inv'[i].created = 0]_vars

\* C7: the events of a document are the work of one invocation.
C7_OneWriterPerDocument ==
  \A e, f \in detectedEvents : e.documentId = f.documentId => e.run = f.run

(***************************************************************************)
(* detectEventsForDocument over the replies of the generative model: the   *)
(* calls for the document are made one after the other, and the document   *)
(* is not deleted.                                                         *)
(***************************************************************************)
\* the texts ingested: of 1, 48, 50 and 52 characters
ExtractTexts ==
  { <<"a">>, <<"W">>, <<"W", " ", "a">>, <<"W", " ", " ", "a", " ", "a">> }

\* the fields of the candidates the model replies with
CandidateTitles ==
  { Null, Num(7), Str(<<>>), Str(<<" ">>), Str(<<" ", "Standup", " ">>) }
CandidateTimes == { Null, Str(<<"soon">>), Str(<<" ", "2026-01-05T10:00">>) }
CandidateEnds == { Null, Str(<<"2026-01-05T10:00">>) }
CandidateRecurrences == { Null, Str(<<>>), Str(<<"weekly">>) }
CandidateConfidences == { Str(<<"high">>), Num(59), Num(60), Num(150) }

Candidates ==
  [title : CandidateTitles, start_time : CandidateTimes, end_time : CandidateEnds,
   recurrence : CandidateRecurrences, confidence : CandidateConfidences]

\* a candidate below the threshold
LowEvent == [GoodEvent EXCEPT !.confidence = Num(59)]

\* a candidate whose start is not a date, and one with a title only
SoonEvent ==
  [title |-> Str(<<"Launch">>), start_time |-> Str(<<"soon">>),
   end_time |-> Str(<<"2026-01-05T10:00">>), recurrence |-> Null, confidence |-> Num(90)]
TitleOnlyEvent ==
  [title |-> Str(<<"Party">>), start_time |-> Null,
   end_time |-> Null, recurrence |-> Null, confidence |-> Num(100)]

\* the replies: a failure of the call, a text that is not JSON, a JSON value
\* that is not an array, and arrays of no, one and two candidates
ExtractReplies ==
  { LlmThrows, LlmGarbage, LlmNotArray, LlmArray(<<>>),
    LlmArray(<<LowEvent, OtherEvent>>), LlmArray(<<SoonEvent, TitleOnlyEvent>>) }
    \cup { LlmArray(<<c>>) : c \in Candidates }

\* a caller invokes the function when no invocation for the document runs
ExtractCall(d, k) ==
  /\ \A j \in 1..MaxCalls : inv[<<d, j>>].pc \in {"idle", "done"}
  /\ DetectCall(d, k)

NextExtract ==
  \/ \E u \in Users, t \in ExtractTexts : FreeDocs \cap EventDocs # {} /\ IngestCreate(u, t)
  \/ \E d \in DocIds : IngestChunks(d)
  \/ \E d \in DocIds : IngestStore(d)
  \/ \E d \in EventDocs, k \in 1..MaxCalls : ExtractCall(d, k)
  \/ \E i \in InvIds : DetectLoad(i)
  \/ \E i \in InvIds : DetectGuard(i)
  \/ \E i \in InvIds : DetectExtract(i, ExtractReplies)
  \/ \E i \in InvIds : DetectCreate(i)

SpecExtract == Init /\ [][NextExtract]_vars

\* a candidate with a non-empty string as title and a number of at least
\* 0.6 as confidence
Acceptable(c) ==
  /\ c.title.type = "string" /\ c.title.val # <<>>
  /\ c.confidence.type = "number" /\ c.confidence.val >= 60

\* invocation i has the model's reply and enters its loop
EntersLoop(i) == inv[i].pc = "llm" /\ inv'[i].pc = "create"
\* invocation i makes a turn of its loop
LoopTurn(i) == inv[i].pc = "create" /\ inv'[i] # inv[i]
\* the DetectedEvent rows invocation i creates with this step
CreatedBy(i) == { e \in detectedEvents' \ detectedEvents : e.run = i }

\* C21: the candidates that pass sanitization are those with a non-empty
\* string title and a numeric confidence of at least 0.6, so that none
\* below 0.6 passes; and for a sanitized candidate with confidence exactly
\* 0.6 and a non-empty recurrence string the turn of the loop is a create:
\* the turn never counts it as skipped, and it persists the row with
\* confidence 0.6 unless the create throws.
C21_ConfidenceThreshold ==
  [][\A i \in InvIds :
       /\ EntersLoop(i) =>
            /\ Len(inv'[i].queue)
                 = Cardinality({ k \in 1..Len(inv'[i].raw) : Acceptable(inv'[i].raw[k]) })
            /\ \A k \in 1..Len(inv'[i].queue) : inv'[i].queue[k].confidence.val >= 60
       /\ (LoopTurn(i) /\ Head(inv[i].queue).confidence.val = 60
             /\ Head(inv[i].queue).recurrence.type = "string"
             /\ Head(inv[i].queue).recurrence.val # <<>>) =>
            /\ inv'[i].skippedCount = inv[i].skippedCount
            /\ \/ /\ inv'[i].created = inv[i].created + 1
                  /\ \E e \in CreatedBy(i) :
                       e.confidence = 60 /\ e.recurrence = Head(inv[i].queue).recurrence
               \/ /\ inv'[i].created = inv[i].created
                  /\ detectedEvents' = detectedEvents]_vars

\* a candidate with confidence 0.6, a recurrence and no time was persisted
C21_Witness ==
  \E e \in detectedEvents :
    /\ e.confidence = 60 /\ e.recurrence = Str(<<"weekly">>)
    /\ e.startTime = Null /\ e.endTime = Null
    /\ inv[e.run].pc = "done" /\ inv[e.run].created = 1 /\ inv[e.run].skippedCount = 0

\* C21 as stated: a sanitized candidate with a non-empty title, confidence
\* exactly 0.6 and a recurrence that is not null is persisted (granted that
\* the create does not throw).
C21_NonNullRecurrencePersisted ==
  [][\A i \in InvIds :
       (LoopTurn(i) /\ Head(inv[i].queue).confidence.val = 60
         /\ Head(inv[i].queue).title.val # <<>>
         /\ Head(inv[i].queue).recurrence.type # "null") =>
         \/ CreatedBy(i) # {}
         \/ inv'[i].skippedCount = inv[i].skippedCount]_vars

\* C22: every persisted DetectedEvent has a non-empty title.
C22_NonEmptyTitle ==
  \A e \in detectedEvents : e.title # <<>>

\* the time strings of the candidates that are dates
ParseableTimes == { Str(<<"2026-01-05T10:00">>), Str(<<" ", "2026-01-05T10:00">>) }
\* a recurrence that is a non-empty string
HasRecurrence(v) == v.type = "string" /\ v.val # <<>>

\* C23: every persisted DetectedEvent has a start time, an end time or a
\* non-empty recurrence.  In a turn of the loop a start or an end that is
\* not a date becomes null in the row the turn creates; a candidate with no
\* date as start, no date as end and no recurrence is counted as skipped
\* and creates no row, whatever its confidence; every other candidate is
\* not skipped.
C23_TimeOrRecurrence ==
  [][/\ \A e \in detectedEvents' :
          e.startTime # Null \/ e.endTime # Null \/ HasRecurrence(e.recurrence)
     /\ \A i \in InvIds :
          LoopTurn(i) =>
            LET c == Head(inv[i].queue)
            IN  /\ \A e \in CreatedBy(i) :
                     /\ (e.startTime = Null) <=> (c.start_time \notin ParseableTimes)
                     /\ (e.endTime = Null) <=> (c.end_time \notin ParseableTimes)
                /\ IF /\ c.start_time \notin ParseableTimes
                      /\ c.end_time \notin ParseableTimes
                      /\ ~HasRecurrence(c.recurrence)
                   THEN /\ CreatedBy(i) = {}
                        /\ inv'[i].skippedCount = inv[i].skippedCount + 1
                   ELSE inv'[i].skippedCount = inv[i].skippedCount]_vars

\* of two candidates the one whose start was not a date was persisted with
\* a null start and its end, and the one with a title only was skipped
C23_Witness ==
  \E i \in InvIds :
    /\ inv[i].pc = "done" /\ inv[i].created = 1 /\ inv[i].skippedCount = 1
    /\ \E e \in detectedEvents :
         /\ e.run = i /\ e.title = <<"Launch">>
         /\ e.startTime = Null /\ e.endTime = Date(<<"2026-01-05T10:00">>)
         /\ e.recurrence = Null

\* C24: every persisted DetectedEvent has a confidence between 0.6 and 1,
\* and so has every sanitized candidate waiting in a loop.
C24_ConfidenceRange ==
  /\ \A e \in detectedEvents :
       MinConfidence <= e.confidence /\ e.confidence <= MaxConfidence
  /\ \A i \in InvIds : \A k \in 1..Len(inv[i].queue) :
       /\ MinConfidence <= inv[i].queue[k].confidence.val
       /\ inv[i].queue[k].confidence.val <= MaxConfidence

\* the candidate with confidence 1.5 was persisted with confidence 1
C24_Witness ==
  \E e \in detectedEvents :
    /\ e.confidence = MaxConfidence /\ e.title = <<"Standup">>
    /\ inv[e.run].pc = "done" /\ inv[e.run].llm = "array"

\* invocation i takes a step at position pc
StepAt(i, pc) == inv[i].pc = pc /\ inv'[i] # inv[i]

\* C25: when the guard of an invocation finds a DetectedEvent of the
\* document, or a combined chunk text of fewer than 50 characters, the
\* invocation returns skipped, having called no model and persisted
\* nothing; otherwise it goes on to call the model, and it calls it once:
\* the call is answered in the next step of the invocation, and no later
\* step of it is a call.
C25_SkipGuard ==
  [][\A i \in InvIds :
       /\ StepAt(i, "guard") =>
            IF \/ \E e \in detectedEvents : e.documentId = i[1]
               \/ StrLen(inv[i].combinedText) < 50
            THEN /\ inv'[i].pc = "done" /\ inv'[i].result = "skipped"
                 /\ inv'[i].llm = "none" /\ inv'[i].created = 0
                 /\ detectedEvents' = detectedEvents
            ELSE inv'[i].pc = "llm" /\ inv'[i].llm = "none"
       /\ StepAt(i, "llm") =>
            inv'[i].llm # "none" /\ inv'[i].pc \in {"create", "done"}
       /\ StepAt(i, "create") =>
            inv'[i].llm = inv[i].llm /\ inv'[i].pc \in {"create", "done"}]_vars

\* for a text of exactly 50 characters the model was called and an event
\* persisted, and the next invocation returned skipped without a call
C25_Witness ==
  \E i, j \in InvIds :
    /\ i[1] = j[1] /\ i # j
    /\ \A c \in chunks : c.documentId = i[1] => StrLen(c.content) = 50
    /\ inv[j].pc = "done" /\ inv[j].llm = "array" /\ inv[j].created = 1
    /\ \E e \in detectedEvents : e.run = j
    /\ inv[i].pc = "done" /\ inv[i].result = "skipped" /\ inv[i].llm = "none"

\* C26: an invocation whose call of the model fails, or is answered by a
\* text that is not JSON or by a JSON value that is not an array, returns
\* normally with a detected count of zero, and it persists nothing.
C26_ModelFailureNotRaised ==
  [][\A i \in InvIds :
       (StepAt(i, "llm") /\ inv'[i].llm \in {"throws", "garbage", "notArray"}) =>
         /\ inv'[i].pc = "done" /\ inv'[i].result = "detected"
         /\ inv'[i].created = 0
         /\ detectedEvents' = detectedEvents]_vars

\* one invocation returned after a failed call of the model and another
\* after a reply that is no array, and the document has no event
C26_Witness ==
  \E i, j \in InvIds :
    /\ i[1] = j[1]
    /\ inv[i].pc = "done" /\ inv[i].llm = "throws" /\ inv[i].result = "detected"
    /\ inv[j].pc = "done" /\ inv[j].llm \in {"garbage", "notArray"}
    /\ inv[j].result = "detected"
    /\ inv[i].created = 0 /\ inv[j].created = 0
    /\ \A e \in detectedEvents : e.documentId # i[1]

(***************************************************************************)
(* POST /chat and DELETE /chat/:chatId                                     *)
(***************************************************************************)
\* the messages users send
Messages == { <<"a">>, <<"b">> }
\* the limit the chat route searches with
ChatSearchLimit == 5
\* the answers of the generative model
RagAnswer == <<"r">>
GeneralAnswer == <<"g">>

UserTurn(message) == [role |-> "user", content |-> message]
AssistantTurn(response) == [role |-> "assistant", content |-> response]

\* messages.push(turn)
pushFront(messages, turn) == <<turn>> \o messages
push(messages, turn) == Append(messages, turn)

\* messages.slice(0, -1)
HistoryWhole(messages) == messages
History(messages) == SubSeq(messages, 1, Len(messages) - 1)

\* the call of a generator a request makes: the generator and its arguments
NoCall == [gen |-> "none", query |-> <<>>, chunks |-> <<>>, history |-> <<>>]
RagCall(message, retrievedChunks, history) ==
  [gen |-> "rag", query |-> message, chunks |-> retrievedChunks, history |-> history]
GeneralCall(message, history) ==
  [gen |-> "general", query |-> message, chunks |-> <<>>, history |-> history]

\* generateResponseWithRAG / generateGeneralResponse: the texts the model can
\* answer with (each can also throw)
generateResponseWithRAG(message, retrievedChunks, history) == { RagAnswer }
generateGeneralResponse(message, history) == { GeneralAnswer }

\* the messages of the errors the chat route answers with
ErrChatNotFound == "Chat not found or access denied"
ErrGenerate == "Failed to generate response"

\* the request has answered, with sendSuccess({chatId, ...}) or with
\* sendError(message, status): its locals are gone
Answered(r, status, error) ==
  [pc |-> "done", status |-> status, error |-> error,
   chatId |-> IF status = 200 THEN r.chatId ELSE NoChatId]

\* the handler with the chat it works on and the user turn pushed
StartedSearching(u, message, useRAG, c, read) ==
  [pc |-> "search",
   userId |-> u, message |-> message, useRAG |-> useRAG, chatId |-> c,
   read |-> read, messages |-> push(read, UserTurn(message)),
   retrievedChunks |-> <<>>, response |-> <<>>, call |-> NoCall]
Started(u, message, useRAG, c, read) ==
  [pc |-> IF useRAG THEN "search" ELSE "generate",
   userId |-> u, message |-> message, useRAG |-> useRAG, chatId |-> c,
   read |-> read, messages |-> push(read, UserTurn(message)),
   retrievedChunks |-> <<>>, response |-> <<>>, call |-> NoCall]

\* the validation of the body, prisma.chat.findFirst({id, userId}) for a
\* chatId or prisma.chat.create({messages: []}) without one, and the push of
\* the user turn
ChatBegin(r, u, message, c, useRAG) ==
  /\ reqs[r].pc = "idle"
  /\ u \in users
  /\ IF c # NoChatId
     THEN /\ IF c \in DOMAIN chats /\ chats[c].userId = u
             THEN reqs' = [reqs EXCEPT ![r] = Started(u, message, useRAG, c, chats[c].messages)]
             ELSE reqs' = [reqs EXCEPT ![r] = [pc |-> "done", status |-> 404, error |-> ErrChatNotFound, chatId |-> NoChatId]]
          /\ UNCHANGED chats
     ELSE \/ /\ chats' = (r :> [userId |-> u, messages |-> <<>>]) @@ chats
             /\ reqs' = [reqs EXCEPT ![r] = Started(u, message, useRAG, r, <<>>)]
          \/ /\ reqs' = [reqs EXCEPT ![r] = [pc |-> "done", status |-> 500, error |-> ErrDatabase, chatId |-> NoChatId]]
             /\ UNCHANGED chats
  /\ UNCHANGED <<bootVars, probe, lastSearch, storeVars>>

\* searchSimilarChunks(userId, message, 5): the chunks, or an error of the
\* embedding gateway or of Qdrant
ChatSearch(r) ==
  /\ reqs[r].pc = "search"
  /\ \/ \E found \in searchSimilarChunks(points, reqs[r].userId, reqs[r].message, ChatSearchLimit) :
          reqs' = [reqs EXCEPT ![r].pc = "generate", ![r].retrievedChunks = found.result]
     \/ \E e \in {ErrEmbedding, ErrQdrant} : reqs' = [reqs EXCEPT ![r] = Answered(@, 500, e)]
  /\ UNCHANGED <<bootVars, probe, lastSearch, chats, storeVars>>

\* the generation with or without context, and the push of the assistant turn
ChatGeneratePersistingUserTurn(r) ==
  /\ reqs[r].pc = "generate"
  /\ \/ /\ reqs' = [reqs EXCEPT ![r].pc = "persist", ![r].response = GeneralAnswer,
                                 ![r].messages = push(reqs[r].messages, AssistantTurn(GeneralAnswer))]
        /\ UNCHANGED chats
     \/ /\ reqs' = [reqs EXCEPT ![r] = Answered(@, 500, ErrGenerate)]
        /\ reqs[r].chatId \in DOMAIN chats
        /\ chats' = [chats EXCEPT ![reqs[r].chatId].messages = reqs[r].messages]
  /\ UNCHANGED <<bootVars, probe, lastSearch, storeVars>>
ChatGenerate(r) ==
  /\ reqs[r].pc = "generate"
  /\ LET q == reqs[r]
         grounded == q.useRAG /\ Len(q.retrievedChunks) > 0
         answers == IF grounded
                    THEN generateResponseWithRAG(q.message, q.retrievedChunks, History(q.messages))
                    ELSE generateGeneralResponse(q.message, History(q.messages))
         call == IF grounded
                 THEN RagCall(q.message, q.retrievedChunks, History(q.messages))
                 ELSE GeneralCall(q.message, History(q.messages))
     IN  \/ \E response \in answers :
              reqs' = [reqs EXCEPT ![r].pc = "persist", ![r].response = response,
                                   ![r].call = call,
                                   ![r].messages = push(q.messages, AssistantTurn(response))]
         \/ reqs' = [reqs EXCEPT ![r] = Answered(@, 500, ErrGenerate)]
  /\ UNCHANGED <<bootVars, probe, lastSearch, chats, storeVars>>

\* prisma.chat.update({where: {id}, data: {messages}}) and the response
ChatPersist(r) ==
  /\ reqs[r].pc = "persist"
  /\ \/ /\ reqs[r].chatId \in DOMAIN chats
        /\ chats' = [chats EXCEPT ![reqs[r].chatId].messages = reqs[r].messages]
        /\ reqs' = [reqs EXCEPT ![r] = Answered(@, 200, NoError)]
     \/ /\ reqs' = [reqs EXCEPT ![r] = Answered(@, 500, ErrDatabase)]
        /\ UNCHANGED chats
  /\ UNCHANGED <<bootVars, probe, lastSearch, storeVars>>

\* DELETE /chat/:chatId: prisma.chat.findFirst({id, userId}), then
\* prisma.chat.delete.  (Nothing changes the owner of a Chat row, so the
\* lookup is taken together with the delete.)
ChatDelete(u, c) ==
  /\ c \in DOMAIN chats
  /\ chats[c].userId = u
  /\ chats' = Restrict(chats, DOMAIN chats \ {c})
  /\ UNCHANGED <<bootVars, probe, lastSearch, reqs, storeVars>>

NextChat ==
  \/ \E r \in ReqIds, u \in Users, m \in Messages, c \in ReqIds \cup {NoChatId}, useRAG \in BOOLEAN :
       ChatBegin(r, u, m, c, useRAG)
  \/ \E r \in ReqIds : ChatSearch(r)
  \/ \E r \in ReqIds : ChatGenerate(r)
  \/ \E r \in ReqIds : ChatPersist(r)
  \/ \E u \in Users, c \in ReqIds : ChatDelete(u, c)
  \/ \E d \in IndexDocs :
       /\ points = {} /\ \A r \in ReqIds : reqs[r].pc = "idle"
       /\ CallStore("u1", d, <<"a">>)

SpecChat == Init /\ [][NextChat]_vars

IsPrefix(s, t) == Len(s) <= Len(t) /\ SubSeq(t, 1, Len(s)) = s

\* request r gets the answer of a generator with this step
Generates(r) == reqs[r].pc = "generate" /\ reqs'[r].pc = "persist"

\* C27: a request that generates an answer has called one generator: with
\* useRAG and at least one search result the grounded one, with the query,
\* all the retrieved chunks and the turns read from the conversation (the
\* user turn of the request not among them); without useRAG, or with no
\* result, the general one, with the query and those turns only.  A
\* request without useRAG searches nothing, and after its generation a
\* request calls no generator again.
C27_PathSelection ==
  [][\A r \in ReqIds :
       /\ Generates(r) =>
            LET q == reqs[r]
            IN  /\ q.call = NoCall
                /\ IF q.useRAG /\ Len(q.retrievedChunks) >= 1
                   THEN reqs'[r].call =
                          [gen |-> "rag", query |-> q.message,
                           chunks |-> q.retrievedChunks, history |-> q.read]
                   ELSE reqs'[r].call =
                          [gen |-> "general", query |-> q.message,
                           chunks |-> <<>>, history |-> q.read]
                /\ reqs'[r].response =
                     IF reqs'[r].call.gen = "rag" THEN RagAnswer ELSE GeneralAnswer
       /\ reqs[r].pc = "search" => reqs[r].useRAG
       /\ (reqs[r].pc \in {"search", "generate"} /\ ~reqs[r].useRAG) =>
            reqs[r].retrievedChunks = <<>>
       /\ (reqs[r].pc = "persist" /\ reqs'[r] # reqs[r]) => reqs'[r].pc = "done"]_vars

\* on a conversation of two turns a request with useRAG has called the
\* grounded generator with a retrieved chunk and the two turns
C27_Witness ==
  \E r \in ReqIds :
    /\ reqs[r].pc = "persist" /\ reqs[r].useRAG
    /\ reqs[r].call.gen = "rag" /\ Len(reqs[r].call.chunks) >= 1
    /\ Len(reqs[r].call.history) = 2
    /\ reqs[r].call.history = reqs[r].read
    /\ reqs[r].response = RagAnswer

\* C8: the message list of a conversation only grows: every write leaves
\* the list it replaces as a prefix of the new list.
C8_AppendOnly ==
  [][\A c \in DOMAIN chats \cap DOMAIN chats' :
       IsPrefix(chats[c].messages, chats'[c].messages)]_vars

\* request r answers success with this step
ChatSucceeds(r) == reqs[r].pc = "persist" /\ reqs'[r].pc = "done" /\ reqs'[r].status = 200

\* C9: a successful chat request writes the list it read extended by its
\* user turn and then the assistant turn with the generated response.
C9_TwoTurns ==
  [][\A r \in ReqIds :
       ChatSucceeds(r) =>
         /\ reqs[r].chatId \in DOMAIN chats'
         /\ chats'[reqs[r].chatId].messages =
              reqs[r].read \o << [role |-> "user", content |-> reqs[r].message],
                                 [role |-> "assistant", content |-> reqs[r].response] >>
         /\ reqs[r].response \in {RagAnswer, GeneralAnswer}]_vars

\* a request on a conversation that had two turns has succeeded, and the
\* conversation has four
C9_Witness ==
  \E r \in ReqIds :
    /\ reqs[r].pc = "done" /\ reqs[r].status = 200
    /\ reqs[r].chatId \in DOMAIN chats
    /\ Len(chats[reqs[r].chatId].messages) = 4
    /\ chats[reqs[r].chatId].messages[3].role = "user"
    /\ chats[reqs[r].chatId].messages[4].role = "assistant"

\* request r fails in the generation with this step
FailsInGeneration(r) ==
  /\ reqs[r].pc = "generate"
  /\ reqs'[r].pc = "done" /\ reqs'[r].error = ErrGenerate

\* C11: a chat request that fails in the generation persists nothing: the
\* conversations are as they were before the failing step, the request's
\* user turn is in none of them, and no persisted message list ends with a
\* user turn.
C11_UserTurnNotPersisted ==
  [][\A r \in ReqIds :
       FailsInGeneration(r) =>
         /\ chats' = chats
         /\ \A c \in DOMAIN chats' :
              \/ chats'[c].messages = <<>>
              \/ chats'[c].messages[Len(chats'[c].messages)].role = "assistant"]_vars

\* a request that created its conversation has failed in the generation,
\* and the conversation has no turn
C11_Witness ==
  \E r \in ReqIds :
    /\ reqs[r].pc = "done" /\ reqs[r].status = 500 /\ reqs[r].error = ErrGenerate
    /\ r \in DOMAIN chats
    /\ chats[r].messages = <<>>

\* C11 as stated: after the failure the request's user turn is the last
\* turn of the persisted conversation.
C11_UserTurnRemains ==
  [][\A r \in ReqIds :
       FailsInGeneration(r) =>
         /\ reqs[r].chatId \in DOMAIN chats'
         /\ chats'[reqs[r].chatId].messages # <<>>
         /\ chats'[reqs[r].chatId].messages[Len(chats'[reqs[r].chatId].messages)] =
              [role |-> "user", content |-> reqs[r].message]]_vars

\* C10: a chat request that failed has left no conversation behind.
C10_FailedLeavesNothing ==
  \A r \in ReqIds :
    (reqs[r].pc = "done" /\ reqs[r].status = 500) => r \notin DOMAIN chats

(***************************************************************************)
(* Properties of the PDF pipeline.                                         *)
(***************************************************************************)
\* the run of the pipeline for document d ends in failure with this step
RunEndsFailed(d) == pipe[d].pc = "failMark" /\ pipe'[d].pc = "failed"

C13_ResponseBeforePipeline ==
  \A d \in DocIds :
    pipe[d].pc = "scheduled" =>
      /\ pipe[d].response = "success"
      /\ pipe[d].text = <<>> /\ pipe[d].rows = <<>> /\ pipe[d].deleteCalls = 0
      /\ DocExists(d) =>
           /\ documents[d].fileType = "pdf"
           /\ documents[d].content = <<>>
           /\ DerivedStatus(documents[d]) = "processing"

\* a PDF was uploaded and answered, and its run has not started
C13_Witness ==
  \E d \in DocIds :
    /\ pipe[d].pc = "scheduled" /\ pipe[d].response = "success"
    /\ DocExists(d) /\ DerivedStatus(documents[d]) = "processing"

\* the position of a run in the pipeline: the steps in their order, then the
\* failure handler
StepRank(pc) ==
  CASE pc = "none" -> 0 [] pc = "scheduled" -> 1 [] pc = "extracted" -> 2
    [] pc = "chunking" -> 3 [] pc = "chunked" -> 4 [] pc = "stored" -> 5
    [] pc = "detecting" -> 6 [] pc = "done" -> 7
    [] pc = "failing" -> 8 [] pc = "failMark" -> 9 [] pc = "failed" -> 10

\* document d exists before and after the step
Stays(d) == d \in DOMAIN documents /\ d \in DOMAIN documents'

CleanupFails(d) ==
  /\ pipe[d].pc = "stored"
  /\ pipe'[d].pc # "stored" /\ pipe'[d].cleanup = "threw"

C17_DetectionNeverFailsRun ==
  [][\A d \in DocIds :
       pipe[d].pc \in {"detecting", "done"} =>
         /\ pipe[d].pc = "detecting" => ENABLED PdfComplete(d)
         /\ pipe'[d].pc \in {pipe[d].pc, "done"}
         /\ pipe'[d].deleteCalls = 1 /\ pipe'[d].err = NoError /\ ~pipe'[d].marked
         /\ Stays(d) => documents'[d].content = documents[d].content]_vars

\* the detection of a run threw because the document was deleted, and the
\* run is done without an error of its own
C17_Witness ==
  \E d \in DocIds :
    /\ inv[<<d, 1>>].pc = "done" /\ inv[<<d, 1>>].result = "threw"
    /\ pipe[d].pc = "done" /\ pipe[d].err = NoError /\ ~pipe[d].marked
    /\ ~DocExists(d)

\* the positions of a PDF run
PdfPcs ==
  {"scheduled", "extracted", "chunking", "chunked", "stored", "detecting", "done",
   "failing", "failMark", "failed"}

\* C18: whatever a PDF run does, the upload request has answered success and
\* the answer stays; no error leaves the detached task uncaught; and a run
\* that failed has ended.
C18_NoErrorReachesCaller ==
  \A d \in DocIds :
    pipe[d].pc \in PdfPcs =>
      /\ pipe[d].response = "success"
      /\ ~pipe[d].unhandled
      /\ pipe[d].err # NoError => pipe[d].pc \in {"failing", "failMark", "failed"}

\* a run failed in the extraction and ended; the upload was answered with
\* success
C18_Witness ==
  \E d \in DocIds :
    /\ pipe[d].pc = "failed" /\ pipe[d].err = ErrPdfParse
    /\ pipe[d].response = "success" /\ ~pipe[d].unhandled

\* C19: only a text that is not blank passes the extraction; a run whose
\* extraction yielded an empty or whitespace-only text has no Chunk row
\* and no point, and its Document, while it exists, is never ready: it is
\* processing until the marker update of the failure handler resolves, and
\* failed from then on.
C19_NoTextNothingWritten ==
  \A d \in DocIds :
    /\ pipe[d].pc \in {"extracted", "chunking", "chunked", "stored", "detecting", "done"}
         => ~Blank(pipe[d].text)
    /\ pipe[d].err = ErrNoText =>
         /\ pipe[d].pc \in {"failing", "failMark", "failed"}
         /\ pipe[d].text = <<>> /\ pipe[d].rows = <<>>
         /\ \A c \in chunks : c.documentId # d
         /\ \A p \in points : p.document_id # d
         /\ DocExists(d) =>
              DerivedStatus(documents[d]) = IF pipe[d].marked THEN "failed" ELSE "processing"

\* a run whose extraction yielded no text has ended, and its document is
\* failed
C19_Witness ==
  \E d \in DocIds :
    /\ pipe[d].pc = "failed" /\ pipe[d].err = ErrNoText /\ pipe[d].marked
    /\ DocExists(d) /\ DerivedStatus(documents[d]) = "failed"
    /\ documents[d].content = <<FailureMarker, " ", ErrNoText>>

\* C19 as stated: a run whose extraction yielded no text ends with its
\* document failed.
C19_NoTextEndsFailed ==
  [][\A d \in DocIds :
       (RunEndsFailed(d) /\ pipe[d].err = ErrNoText /\ d \in DOMAIN documents') =>
         DerivedStatus(documents'[d]) = "failed"]_vars

\* the content of document d, which exists before and after, changes
ContentWritten(d) ==
  /\ d \in DOMAIN documents /\ d \in DOMAIN documents'
  /\ documents'[d].content # documents[d].content

\* C20: the content of an existing Document changes only in two steps of
\* its own pipeline run: the update that replaces the empty content with
\* the extracted text, and the marker update of the failure handler, with
\* which the run ends. Hence it is written at most twice, and nothing else
\* writes it.
C20_OnlyPipelineWrites ==
  [][\A d \in DocIds :
       ContentWritten(d) =>
         \/ /\ pipe[d].pc = "extracted" /\ pipe'[d].pc \in {"chunking", "failing"}
            /\ documents[d].content = <<>>
            /\ documents'[d].content = pipe[d].text
         \/ /\ pipe[d].pc = "failMark" /\ pipe'[d].pc = "failed"
            /\ documents'[d].content = <<FailureMarker, " ", pipe[d].err>>]_vars

\* a run has written the extracted text and then the marker over it
C20_Witness ==
  \E d \in DocIds :
    /\ pipe[d].pc = "failed" /\ pipe[d].marked
    /\ pipe[d].err \in {ErrNoChunks, ErrEmbedding, ErrQdrant}
    /\ pipe[d].text # <<>>
    /\ DocExists(d) /\ documents[d].content = <<FailureMarker, " ", pipe[d].err>>

\* C20 as stated: a content that has been written is not written again.
C20_WrittenOnce ==
  [][\A d \in DocIds : ContentWritten(d) => documents[d].content = <<>>]_vars

\* the run for document d reaches the blob cleanup of the success path with
\* this step: the upsert was acknowledged
ReachesCleanup(d) == pipe[d].pc = "chunked" /\ pipe'[d].pc = "stored"

\* C12: when a run reaches the blob cleanup of the success path, the index
\* holds exactly one point for every chunk the run persisted and for every
\* Chunk row of the document, with the run's tenant id, the document id and
\* the chunk's id, and no other point of the document.
C12_PointsAtCleanup ==
  [][\A d \in DocIds :
       ReachesCleanup(d) =>
         /\ pipe'[d].rows # <<>>
         /\ \A c \in Range(pipe'[d].rows) \cup { x \in chunks' : x.documentId = d } :
              /\ Cardinality({ p \in points' : p.chunk_id = c.id }) = 1
              /\ \A p \in points' :
                   p.chunk_id = c.id =>
                     /\ p.user_id = pipe'[d].userId
                     /\ p.document_id = d
                     /\ p.text = c.content
         /\ \A p \in points' :
              p.document_id = d => \E c \in Range(pipe'[d].rows) : p.chunk_id = c.id]_vars

\* a run is at the blob cleanup, its document has Chunk rows and each has
\* its point
C12_Witness ==
  \E d \in DocIds :
    /\ pipe[d].pc = "stored"
    /\ ChunksOf(d) # {}
    /\ \A c \in ChunksOf(d) :
         \E p \in points : p.chunk_id = c.id /\ p.document_id = d /\ p.user_id = c.userId

\* C3: a run of the PDF pipeline never calls deleteFromCloudinary twice, and
\* a run that has ended, in done or in failed, has called it exactly once.
C3_BlobDeletedOnce ==
  \A d \in DocIds :
    /\ pipe[d].deleteCalls <= 1
    /\ pipe[d].pc \in {"done", "failed"} => pipe[d].deleteCalls = 1
    /\ pipe[d].pc \in {"detecting", "failMark"} => pipe[d].deleteCalls = 1

\* a run ended in done although its detection threw: one call
C3_Witness ==
  \E d \in DocIds :
    /\ pipe[d].pc = "done"
    /\ inv[<<d, 1>>].result = "threw"
    /\ pipe[d].deleteCalls = 1

(***************************************************************************)
(* Properties of deletion.                                                 *)
(***************************************************************************)
\* C4: every point's chunk_id refers to an existing Chunk row and its
\* document_id to an existing Document row.
C4_NoOrphanVectors ==
  \A p \in points :
    /\ \E c \in chunks : c.id = p.chunk_id
    /\ DocExists(p.document_id)

\* DELETE /documents/:documentId answers success for document d with this step
DeleteSucceeds(d) ==
  /\ del[d].pc = "vectorsDone" /\ del'[d].pc = "idle"
  /\ DocExists(d)

\* C5: when the deletion of document d of tenant T has succeeded, no point
\* with user_id = T and document_id = d is left and no DetectedEvent of d
\* is left.
C5_DeleteRemovesPoints ==
  [][\A d \in DocIds :
       DeleteSucceeds(d) =>
         /\ \A p \in points' : ~(p.user_id = del[d].userId /\ p.document_id = d)
         /\ \A e \in detectedEvents' : e.documentId # d]_vars

(***************************************************************************)
(* Properties of the failure handler and of the detection trigger.         *)
(***************************************************************************)
\* C33: the failure handler of a PDF run first attempts the blob deletion,
\* then the failure-marker write, then re-raises: whatever the blob deletion
\* did, the run goes on to the marker write with one deletion call made and
\* no marker written yet; whatever the marker write did, the run ends failed
\* (the error re-raised to processPDFAsync); and the marker is written by
\* no step but the one after the blob deletion.
C33_FailureHandlerOrder ==
  [][\A d \in DocIds :
       /\ (pipe[d].pc = "failing" /\ pipe'[d] # pipe[d]) =>
            /\ pipe'[d].pc = "failMark"
            /\ pipe'[d].deleteCalls = pipe[d].deleteCalls + 1
            /\ pipe'[d].cleanup \in {"ok", "threw"}
            /\ ~pipe'[d].marked
            /\ pipe'[d].err = pipe[d].err
       /\ (pipe[d].pc = "failMark" /\ pipe'[d] # pipe[d]) =>
            /\ pipe'[d].pc = "failed"
            /\ pipe'[d].deleteCalls = pipe[d].deleteCalls
            /\ pipe'[d].err = pipe[d].err
       /\ (pipe'[d].marked /\ ~pipe[d].marked) => pipe[d].pc = "failMark"]_vars

\* the blob deletion of a failure handler threw and the handler is at the
\* marker write
C33_Witness ==
  \E d \in DocIds :
    /\ pipe[d].pc = "failMark"
    /\ pipe[d].cleanup = "threw"
    /\ pipe[d].err # NoError

\* detectEventsForDocument is called for document d with this step
Triggers(d) == inv[<<d, 1>>].pc # "load" /\ inv'[<<d, 1>>].pc = "load"

C36_NoChunksUnreachable ==
  \A d \in DocIds :
    /\ pipe[d].err # ErrNoChunks
    /\ pipe[d].pc \in {"extracted", "chunking"} =>
         Len(chunkText(pipe[d].text, DefaultChunkSize)) >= 1

\* a run passed the zero-chunks check with a text that holds whitespace
C36_Witness ==
  \E d \in DocIds :
    /\ pipe[d].pc = "chunking"
    /\ \E i \in 1..Len(pipe[d].text) : pipe[d].text[i] \in Whitespace

(***************************************************************************)
(* Properties of the persisted conversations.                              *)
(***************************************************************************)
\* the turns alternate user, assistant, beginning with user
Alternates(messages) ==
  \A i \in 1..Len(messages) :
    messages[i].role = IF i % 2 = 1 THEN "user" ELSE "assistant"

\* C37: every persisted conversation has an even number of turns, which
\* alternate user, assistant, beginning with user.
C37_TurnsAlternate ==
  \A c \in DOMAIN chats :
    /\ Len(chats[c].messages) % 2 = 0
    /\ Alternates(chats[c].messages)

\* a conversation holds an exchange, and a request has failed in the
\* generation, after it pushed its user turn
C37_Witness ==
  /\ \E c \in DOMAIN chats : Len(chats[c].messages) = 2
  /\ \E r \in ReqIds :
       /\ reqs[r].pc = "done"
       /\ reqs[r].status = 500
       /\ reqs[r].error = ErrGenerate

(***************************************************************************)
(* Properties of text ingestion and of storeChunksInQdrant.                *)
(***************************************************************************)
\* chunksStored: chunks.length of the success response
ChunksStored(d) == Len(pipe[d].rows)

\* POST /ingest answers success for document d with this step
IngestSucceeds(d) == pipe[d].pc # "t_done" /\ pipe'[d].pc = "t_done"

\* C31: a text ingestion answers success only with the step in which the
\* upsert is acknowledged: then every chunk the chunker produced has a row
\* the request created and every such row a point with its chunk id, the
\* document id and the tenant id, and chunksStored is the number of chunks
\* of the chunker.  A request in which the document creation, the chunk
\* persistence, the embedding or the upsert fails has answered with an
\* error, and a request that has answered does nothing more.
C31_SuccessAfterAllStored ==
  [][\A d \in DocIds :
       /\ IngestSucceeds(d) =>
            /\ pipe[d].pc = "t_chunked"
            /\ pipe'[d].err = NoError
            /\ ChunksStored(d)' = Len(chunkText(pipe[d].text, DefaultChunkSize))
            /\ \A k \in 1..Len(pipe'[d].rows) :
                 /\ pipe'[d].rows[k].content = chunkText(pipe[d].text, DefaultChunkSize)[k]
                 /\ \E p \in points' :
                      /\ p.chunk_id = pipe'[d].rows[k].id
                      /\ p.document_id = d
                      /\ p.user_id = pipe'[d].userId
                      /\ p.text = pipe'[d].rows[k].content
       /\ (pipe[d].pc \in {"none", "t_created", "t_chunked"}
             /\ pipe'[d].err \in {ErrDatabase, ErrEmbedding, ErrQdrant}) =>
            pipe'[d].pc = "t_error"
       /\ (pipe[d].pc \in {"t_created", "t_chunked"} /\ pipe'[d] # pipe[d]) =>
            \/ pipe'[d].pc = "t_error" /\ pipe'[d].err # NoError
            \/ pipe'[d].pc \in {"t_chunked", "t_done"} /\ pipe'[d].err = NoError
       /\ pipe[d].pc \in {"t_done", "t_error"} => pipe'[d] = pipe[d]]_vars

\* a text of two chunks was ingested with success and both points are there
C31_Witness ==
  \E d \in DocIds :
    /\ pipe[d].pc = "t_done"
    /\ ChunksStored(d) = 2
    /\ \A k \in 1..2 : \E p \in points : p.chunk_id = pipe[d].rows[k].id

\* C35: a call of storeChunksInQdrant by the text route in which an
\* embedding fails ends in the error and leaves the collection as it was;
\* a call with an empty chunk list cannot fail and leaves the collection as
\* it was; and a call that returns has added one point for every chunk of
\* the batch, nothing else changed.
C35_StoreAllOrNothing ==
  [][\A d \in DocIds :
       (pipe[d].pc = "t_chunked" /\ pipe'[d] # pipe[d]) =>
         /\ pipe'[d].err = ErrEmbedding => points' = points
         /\ pipe[d].rows = <<>> => (points' = points /\ pipe'[d].pc = "t_done")
         /\ pipe'[d].pc = "t_done" =>
              /\ points \subseteq points'
              /\ Cardinality(points' \ points) = Len(pipe[d].rows)]_vars

\* the embedding failed in a batch of two chunks, whose rows exist, and the
\* collection has no point
C35_Witness ==
  \E d \in DocIds :
    /\ pipe[d].pc = "t_error"
    /\ pipe[d].err = ErrEmbedding
    /\ Len(pipe[d].rows) = 2
    /\ Range(pipe[d].rows) \subseteq chunks
    /\ points = {}

(***************************************************************************)
(* Properties of the order of the writes to the two stores.                *)
(***************************************************************************)
\* C32: in both ingestion paths a step that creates Chunk rows writes no
\* point for them, the rows a run holds were persisted by the step that
\* gave them, and every point written refers to a row of the writing run
\* that was persisted by an earlier step; a Document row (with its chunks)
\* is deleted only by a document deletion or an account deletion whose
\* vector-store delete was issued by an earlier step, and that delete is
\* issued before, not with, the deletion of the rows.
C32_StoreOrder ==
  [][/\ \A c \in chunks' \ chunks : \A p \in points' : p.chunk_id # c.id
     /\ \A d \in DocIds :
          pipe'[d].rows # pipe[d].rows => Range(pipe'[d].rows) \subseteq chunks'
     /\ \A p \in points' \ points :
          \E d \in DocIds :
            /\ pipe[d].pc \in {"t_chunked", "chunked"}
            /\ p.document_id = d
            /\ \E k \in 1..Len(pipe[d].rows) : pipe[d].rows[k].id = p.chunk_id
     /\ \A d \in DOMAIN documents \ DOMAIN documents' :
          \/ del[d].pc = "vectorsDone" /\ del'[d].pc = "idle"
          \/ /\ acct[documents[d].userId] = "vectorsDone"
             /\ acct'[documents[d].userId] = "idle"
     /\ \A c \in chunks \ chunks' : c.documentId \notin DOMAIN documents'
     /\ \A u \in users \ users' : acct[u] = "vectorsDone"
     /\ \A d \in DocIds :
          (del'[d].pc = "vectorsDone" /\ del[d].pc # "vectorsDone") =>
            /\ del[d].pc = "found"
            /\ points' \in {points, deleteDocumentChunks(points, del[d].userId, d)}
            /\ UNCHANGED <<documents, chunks>>
     /\ \A u \in Users :
          (acct'[u] = "vectorsDone" /\ acct[u] # "vectorsDone") =>
            /\ points' \in {points, deleteUserChunks(points, u)}
            /\ UNCHANGED <<users, documents, chunks>>]_vars

\* a PDF of the leaving tenant has its Chunk rows, and the account deletion
\* has issued the vector-store delete: no point of the tenant is left, the
\* rows still are
C32_Witness ==
  /\ acct[Leaver] = "vectorsDone"
  /\ \E d \in DOMAIN documents :
       /\ documents[d].userId = Leaver
       /\ documents[d].fileType = "pdf"
       /\ ChunksOf(d) # {}
  /\ \A p \in points : p.user_id # Leaver

(***************************************************************************)
(* Properties of the refused document deletion.                            *)
(***************************************************************************)
\* document d is none of tenant u's
NotOwner(u, d) == ~(DocExists(d) /\ documents[d].userId = u)

\* C38: a delete request for a document that is not the requesting
\* tenant's answers "Document not found or access denied" and changes
\* neither the collection nor a Document, Chunk or DetectedEvent row of any
\* tenant; a request goes on to the deletion only for a document of the
\* requesting tenant.
C38_RefusedDeleteChangesNothing ==
  [][\A d \in DocIds :
       /\ (del'[d] # del[d] /\ del[d].pc \in {"idle", "denied"}
             /\ NotOwner(del'[d].userId, d)) =>
            /\ del'[d].pc = "denied"
            /\ UNCHANGED <<points, documents, chunks, detectedEvents, users>>
       /\ (del'[d].pc = "found" /\ del[d].pc # "found") =>
            /\ DocExists(d)
            /\ documents[d].userId = del'[d].userId]_vars

\* a tenant was refused the deletion of a document of another tenant, which
\* has its rows and points
C38_Witness ==
  \E d \in DOMAIN documents :
    /\ del[d].pc = "denied"
    /\ del[d].userId # documents[d].userId
    /\ ChunksOf(d) # {}
    /\ \E p \in points : p.document_id = d

====
